---- MODULE Spec2Model ----
(***************************************************************************)
(* Skia core: the image-filter result cache (CacheImpl), the image-filter  *)
(* evaluator (SkImageFilter::filterImage and the node destructor) and the  *)
(* edge builder (SkEdgeBuilder), as state machines.                        *)
(*                                                                         *)
(*   Spec        one CacheImpl driven through its public operations        *)
(*   FilterSpec  filter nodes evaluated through filterImage and destroyed,  *)
(*               with the process-wide cache and a cache of the caller's    *)
(*   EdgeSpec    line, quad and cubic edges added to a basic edge builder   *)
(*   BuildSpec   SkEdgeBuilder::buildEdges on a path, verb by verb          *)
(*   IdSpec      concurrent callers of next_image_filter_unique_id          *)
(*   GraphSpec   filter nodes constructed one after another                 *)
(*   ConcSpec    threads evaluating and destroying nodes, one shared cache  *)
(*   InputSpec   filterInput on a node's null and non-null inputs           *)
(*   CropSpec    CropRect::applyTo and applyCropRect                        *)
(*   UnflattenSpec  a node constructed from a read buffer                   *)
(*   CullSpec    buildEdges on closed polygons, with and without a clip     *)
(*   TwinSpec    buildPoly and build run on the same path of lines          *)
(*   AnalyticSpec  line edges added to an analytic edge builder             *)
(***************************************************************************)
EXTENDS Integers, Sequences, FiniteSets, TLC

VARIABLES
    caches,     \* cache id -> CacheImpl object (fLookup, fLRU, fMaxBytes, fCurrentBytes)
    lastOp,     \* the cache operation that completed last, with what it returned
    useOrder,   \* history: per cache, the present keys, least recently used first
    script,     \* history: how far the run has followed one of the scripted scenarios
    replaced,   \* history: progress through set(k, v1); set(k, v2); get(k)
    fList,      \* the builder's edge list (in buildPoly: fEdgeList up to edgePtr)
    unfused,    \* history: the edges setLine accepted, appended without fusion
    build,      \* buildEdges in progress: where it is, what is left of the path
    nodes,      \* filter node -> SkImageFilter object (alive, fUsesSrcInput, fCacheKeys, ...)
    calls,      \* history: the filterImage call that returned last, and the one before
    gImageFilterUniqueID,   \* the static counter of next_image_filter_unique_id
    callers,    \* thread -> where it is in next_image_filter_unique_id, and its id
    issued,     \* history: the counter the run started from, and the ids returned since
    graph,      \* the filter nodes constructed so far (GraphSpec), inputs before users
    threads,    \* thread -> where it is in filterImage, PurgeCache or a destructor
    fMutex,     \* mutex -> the thread that holds it, or "free"
    heap,       \* the images onFilterImage made, in order: their reference counts
    inputCall,  \* history: the last filterInput call, what it was given and returned
    crop,       \* history: the last CropRect::applyTo or applyCropRect call
    unflat,     \* history: the last node constructed from a read buffer
    cull        \* history: the last buildEdges call on a path with coordinates

unitVars == <<lastOp, useOrder, script, replaced>>
filterVars == <<nodes, calls>>
edgeVars == <<fList, unfused, build>>
idVars == <<gImageFilterUniqueID, callers, issued>>
concVars == <<threads, fMutex, heap>>
callVars == <<inputCall, crop, unflat, cull>>
vars == <<caches, lastOp, useOrder, script, replaced, nodes, calls, fList, unfused, build,
          gImageFilterUniqueID, callers, issued, graph, threads, fMutex, heap,
          inputCall, crop, unflat, cull>>

---------------------------------------------------------------------------
(* Sequences *)

Last(s) == s[Len(s)]

Range(s) == {s[i] : i \in 1..Len(s)}

RECURSIVE SeqRemove(_, _)
SeqRemove(s, x) ==
    IF s = <<>> THEN <<>>
    ELSE IF Head(s) = x THEN SeqRemove(Tail(s), x)
    ELSE <<Head(s)>> \o SeqRemove(Tail(s), x)

RECURSIVE SeqSum(_)
SeqSum(s) == IF s = <<>> THEN 0 ELSE Head(s) + SeqSum(Tail(s))

Reverse(s) == [i \in 1..Len(s) |-> s[Len(s) + 1 - i]]

IsPrefix(p, s) == Len(p) <= Len(s) /\ \A i \in 1..Len(p) : p[i] = s[i]

NoDup(s) == \A i, j \in 1..Len(s) : i # j => s[i] # s[j]

\* all sequences over S of length <= n
RECURSIVE SeqsUpTo(_, _)
SeqsUpTo(S, n) ==
    IF n = 0 THEN {<<>>}
    ELSE LET shorter == SeqsUpTo(S, n - 1)
         IN shorter \cup {Append(s, x) : s \in {t \in shorter : Len(t) = n - 1}, x \in S}

---------------------------------------------------------------------------
(* Bounds of the model *)

MaxPurgeKeys == 2       \* longest keys[] array handed to purgeByKeys

---------------------------------------------------------------------------
(* Cache keys, images, bitmaps *)

kDefaultCacheSize == 134217728

\* Cache::Key(fUniqueID, ctm, clipBounds, srcGenID, srcSubset)
MakeKey(uniqueID, ctm, clipBounds, srcGenID, srcSubset) ==
    [fUniqueID |-> uniqueID, fMatrix |-> ctm, fClipBounds |-> clipBounds,
     fSrcGenID |-> srcGenID, fSrcSubset |-> srcSubset]

EmptySubset == <<0, 0, 0, 0>>       \* SkIRect::MakeWH(0, 0)

\* the fingerprints the cache under test is driven with
UnitKeys == {MakeKey(i, "I", <<0, 0, 8, 8>>, 0, EmptySubset) : i \in {1, 2, 3, 4}}

\* SkSpecialImage objects: identity and getSize()
NullImage == [uid |-> 0, size |-> 0]

\* SkBitmap values: generation id and getSize(); the default-constructed bitmap is empty
EmptyBitmap == [gen |-> 0, size |-> 0]
UnitBitmaps == {[gen |-> 7, size |-> 500]}

Offsets == {<<0, 0>>, <<3, 4>>}     \* SkIPoint
\* the (image, offset) results the cache under test is driven with
UnitResults ==
    {<<[uid |-> 1, size |-> 0], <<0, 0>>>>, <<[uid |-> 2, size |-> 100], <<0, 0>>>>}
NoOffset == <<-1, -1>>              \* *offset left unwritten by a miss

\* Cache::Create(maxBytes) arguments for the cache under test
MaxBytesChoices == {0, 100, 300}

CacheIds == {"global", "local"}

---------------------------------------------------------------------------
(* CacheImpl *)

\* "no key" / nullptr Value: uniqueID 0 is never handed out
NoKey == [fUniqueID |-> 0, fMatrix |-> "I", fClipBounds |-> <<0, 0, 0, 0>>,
          fSrcGenID |-> 0, fSrcSubset |-> <<0, 0, 0, 0>>]
NoValue == [fKey |-> NoKey, fBitmap |-> EmptyBitmap, fImage |-> NullImage,
            fOffset |-> NoOffset]

\* CacheImpl::Value(key, image, offset) / Value(key, bitmap, offset)
ImageValue(key, image, offset) ==
    [fKey |-> key, fBitmap |-> EmptyBitmap, fImage |-> image, fOffset |-> offset]
BitmapValue(key, bitmap, offset) ==
    [fKey |-> key, fBitmap |-> bitmap, fImage |-> NullImage, fOffset |-> offset]

\* CacheImpl(maxBytes); removed is a history field: the keys removeInternal was
\* called on, in order, since the current operation took the mutex
NewCache(maxBytes) ==
    [fLookup |-> {}, fLRU |-> <<>>, fMaxBytes |-> maxBytes, fCurrentBytes |-> 0,
     removed |-> <<>>]

\* SkAutoMutexAcquire mutex(fMutex) at the top of every operation: the operation
\* runs to completion as one step
Locked(c) == [c EXCEPT !.removed = <<>>]

\* fLookup.find(key)
Find(c, key) ==
    IF \E v \in c.fLookup : v.fKey = key
    THEN CHOOSE v \in c.fLookup : v.fKey = key
    ELSE NoValue

\* the size removeInternal subtracts for v
ValueSize(v) == IF v.fImage # NullImage THEN v.fImage.size ELSE v.fBitmap.size

RemoveInternalKeepBytes(c, v) ==
    [c EXCEPT !.fLRU = SeqRemove(@, v),
              !.fLookup = @ \ {w \in @ : w.fKey = v.fKey},
              !.removed = Append(@, v.fKey)]

\* CacheImpl::removeInternal
RemoveInternal(c, v) ==
    [c EXCEPT !.fCurrentBytes = @ - ValueSize(v),
              !.fLRU = SeqRemove(@, v),
              !.fLookup = @ \ {w \in @ : w.fKey = v.fKey},
              !.removed = Append(@, v.fKey)]

MoveToHeadNever(c, v) == c

\* get(): if (v != fLRU.head()) { fLRU.remove(v); fLRU.addToHead(v); }
MoveToHead(c, v) ==
    IF v # Head(c.fLRU)
    THEN [c EXCEPT !.fLRU = <<v>> \o SeqRemove(@, v)]
    ELSE c

\* CacheImpl::get(key, SkIPoint*) and get(key, SkBitmap*, SkIPoint*): the cache after
CacheGet(c0, key) ==
    LET c == Locked(c0)
        v == Find(c, key)
    IN IF v # NoValue THEN MoveToHead(c, v) ELSE c

\* what the get overloads return and write through their out-parameters: the
\* SkSpecialImage overload returns v->fImage, the SkBitmap overload copies v->fBitmap
\* and returns true; both write v->fOffset
GetResult(c, key) ==
    LET v == Find(c, key)
    IN IF v # NoValue
       THEN [found |-> TRUE, image |-> v.fImage, bitmap |-> v.fBitmap, offset |-> v.fOffset]
       ELSE [found |-> FALSE, image |-> NullImage, bitmap |-> EmptyBitmap, offset |-> NoOffset]

EvictOnce(c, v) ==
    IF c.fCurrentBytes > c.fMaxBytes /\ Last(c.fLRU) # v
    THEN RemoveInternal(c, Last(c.fLRU))
    ELSE c

RECURSIVE EvictEvenInserted(_, _)
EvictEvenInserted(c, v) ==
    IF c.fCurrentBytes > c.fMaxBytes /\ c.fLRU # <<>>
    THEN EvictEvenInserted(RemoveInternal(c, Last(c.fLRU)), v)
    ELSE c

\* set(): while (fCurrentBytes > fMaxBytes) { tail = fLRU.tail(); if (tail == v) break;
\*                                            removeInternal(tail); }
RECURSIVE EvictLoop(_, _)
EvictLoop(c, v) ==
    IF c.fCurrentBytes > c.fMaxBytes
    THEN LET tail == Last(c.fLRU)
         IN IF tail = v THEN c ELSE EvictLoop(RemoveInternal(c, tail), v)
    ELSE c

InsertValueNoEviction(c0, v, size) ==
    LET c    == Locked(c0)
        old  == Find(c, v.fKey)
        c1   == IF old # NoValue THEN RemoveInternal(c, old) ELSE c
    IN [c1 EXCEPT !.fLookup = @ \cup {v},
                  !.fLRU = <<v>> \o @,
                  !.fCurrentBytes = @ + size]

InsertValueKeepOld(c0, v, size) ==
    LET c  == Locked(c0)
        c2 == [c EXCEPT !.fLookup = @ \cup {v},
                        !.fLRU = <<v>> \o @,
                        !.fCurrentBytes = @ + size]
    IN EvictLoop(c2, v)

\* the part of both set() overloads after the Value is built
InsertValue(c0, v, size) ==
    LET c    == Locked(c0)
        old  == Find(c, v.fKey)
        c1   == IF old # NoValue THEN RemoveInternal(c, old) ELSE c
        c2   == [c1 EXCEPT !.fLookup = @ \cup {v},
                           !.fLRU = <<v>> \o @,
                           !.fCurrentBytes = @ + size]
    IN EvictLoop(c2, v)

\* CacheImpl::set(key, SkSpecialImage* image, offset)
CacheSet(c, key, image, offset) ==
    InsertValue(c, ImageValue(key, image, offset), image.size)

\* CacheImpl::set(key, const SkBitmap& result, offset)
CacheSetBitmap(c, key, bitmap, offset) ==
    InsertValue(c, BitmapValue(key, bitmap, offset), bitmap.size)

\* purge(): while (fCurrentBytes > 0) { tail = fLRU.tail(); removeInternal(tail); }
RECURSIVE PurgeLoop(_)
PurgeLoop(c) ==
    IF c.fCurrentBytes > 0 /\ c.fLRU # <<>>
    THEN PurgeLoop(RemoveInternal(c, Last(c.fLRU)))
    ELSE c

\* CacheImpl::purge
CachePurge(c) == PurgeLoop(Locked(c))

RECURSIVE PurgeKeysUntilAbsent(_, _)
PurgeKeysUntilAbsent(c, keys) ==
    IF keys = <<>> THEN c
    ELSE LET v == Find(c, Head(keys))
         IN IF v # NoValue THEN PurgeKeysUntilAbsent(RemoveInternal(c, v), Tail(keys))
            ELSE c

\* purgeByKeys(): for (i < count) if (v = fLookup.find(keys[i])) removeInternal(v);
RECURSIVE PurgeKeysLoop(_, _)
PurgeKeysLoop(c, keys) ==
    IF keys = <<>> THEN c
    ELSE LET v == Find(c, Head(keys))
         IN PurgeKeysLoop(IF v # NoValue THEN RemoveInternal(c, v) ELSE c, Tail(keys))

\* CacheImpl::purgeByKeys(keys, count)
CachePurgeByKeys(c, keys) == PurgeKeysLoop(Locked(c), keys)

---------------------------------------------------------------------------
(* Views of a cache *)

LRUKeys(c) == [i \in 1..Len(c.fLRU) |-> c.fLRU[i].fKey]
PresentKeys(c) == {v.fKey : v \in c.fLookup}
LiveBytes(c) == SeqSum([i \in 1..Len(c.fLRU) |-> ValueSize(c.fLRU[i])])
EntriesFor(c, key) == {i \in 1..Len(c.fLRU) : c.fLRU[i].fKey = key}

RECURSIVE SeqRemoveAll(_, _)
SeqRemoveAll(s, S) ==
    IF s = <<>> THEN <<>>
    ELSE IF Head(s) \in S THEN SeqRemoveAll(Tail(s), S)
    ELSE <<Head(s)>> \o SeqRemoveAll(Tail(s), S)

\* key becomes the most recently used one
Touch(order, key) == Append(SeqRemove(order, key), key)

---------------------------------------------------------------------------
(* Filter nodes, source images, contexts *)

MaxCacheKeys == 2       \* longest fCacheKeys list a node is let to record

NodeIds == {"N1", "N2"}
NullInput == "nullptr"  \* a null slot of fInputs: the dynamic source

UsesSrcInputOwnSlots(inputs, built) ==
    \E i \in 1..Len(inputs) : inputs[i] = NullInput

\* SkImageFilter::SkImageFilter(inputCount, inputs, cropRect): fUsesSrcInput.
\* built: the nodes constructed before, which the non-null inputs point to
UsesSrcInput(inputs, built) ==
    \E i \in 1..Len(inputs) :
        inputs[i] = NullInput \/ built[inputs[i]].fUsesSrcInput

\* overrides: whether the subclass has its own onFilterImage (otherwise the base
\* class's, which goes through filterImageDeprecated)
NewNode(uniqueID, inputs, built, overrides) ==
    [alive |-> TRUE, fUniqueID |-> uniqueID, fInputs |-> inputs,
     fUsesSrcInput |-> UsesSrcInput(inputs, built), fCacheKeys |-> <<>>,
     overrides |-> overrides]

\* the nodes of the model: N1 reads the dynamic source and has its own onFilterImage,
\* N2 has no inputs and the base class's onFilterImage
InitNodes ==
    [n \in NodeIds |->
        IF n = "N1" THEN NewNode(1, <<NullInput>>, <<>>, TRUE)
        ELSE NewNode(2, <<>>, <<>>, FALSE)]

\* SkSpecialImage sources: uniqueID(), subset(), and the generation id of the bitmap
\* internal_getBM gives
Sources ==
    {[uid |-> 11, gen |-> 21, subset |-> <<0, 0, 4, 4>>],
     [uid |-> 12, gen |-> 22, subset |-> <<0, 0, 4, 4>>]}

\* Context(ctm, clipBounds, cache); cache "none" is a null cache pointer
Contexts == {[ctm |-> "I", clipBounds |-> <<0, 0, 8, 8>>, cache |-> c] :
                c \in {"none"} \cup CacheIds}

\* what a node's own onFilterImage produces, and what onFilterImageDeprecated does
FilterResult == [uid |-> 5, size |-> 100]
LegacyBitmap == [gen |-> 8, size |-> 100]
FilterOffset == <<0, 0>>

\* SkSpecialImage::internal_fromBM: the image wraps the bitmap
ImageFromBitmap(bitmap) == [uid |-> bitmap.gen, size |-> bitmap.size]

NoSource == [uid |-> 0, gen |-> 0, subset |-> <<0, 0, 0, 0>>]
NoCall == [node |-> "none", key |-> NoKey, cache |-> "none", computed |-> FALSE,
           null |-> TRUE, src |-> NoSource, image |-> NullImage]

---------------------------------------------------------------------------
(* SkBasicEdgeBuilder: edges, vertical fusion, addLine *)

MaxEdges == 3           \* most line edges added to one builder (EdgeSpec)
MaxSegs == 2            \* most segments of a path (BuildSpec)

\* SkEdge as setLine leaves it (SkQuadraticEdge: fCurveCount # 0)
Edge(x, dx, firstY, lastY, winding, curveCount) ==
    [fX |-> x, fDX |-> dx, fFirstY |-> firstY, fLastY |-> lastY,
     fWinding |-> winding, fCurveCount |-> curveCount]

\* the mutation of *last and the Combine returned
Combined(combine, last) == [combine |-> combine, last |-> last]

CombineVerticalHalfSwap(edge, last) ==
    IF last.fCurveCount # 0 \/ last.fDX # 0 \/ edge.fX # last.fX
    THEN Combined("kNo_Combine", last)
    ELSE IF edge.fWinding = last.fWinding
    THEN IF edge.fLastY + 1 = last.fFirstY
         THEN Combined("kPartial_Combine", [last EXCEPT !.fFirstY = edge.fFirstY])
         ELSE IF edge.fFirstY = last.fLastY + 1
         THEN Combined("kPartial_Combine", [last EXCEPT !.fLastY = edge.fLastY])
         ELSE Combined("kNo_Combine", last)
    ELSE IF edge.fFirstY = last.fFirstY
    THEN IF edge.fLastY = last.fLastY
         THEN Combined("kTotal_Combine", last)
         ELSE IF edge.fLastY < last.fLastY
         THEN Combined("kPartial_Combine", [last EXCEPT !.fFirstY = edge.fLastY + 1])
         ELSE Combined("kPartial_Combine",
                       [last EXCEPT !.fFirstY = last.fLastY + 1,
                                    !.fWinding = edge.fWinding])
    ELSE IF edge.fLastY = last.fLastY
    THEN IF edge.fFirstY > last.fFirstY
         THEN Combined("kPartial_Combine", [last EXCEPT !.fLastY = edge.fFirstY - 1])
         ELSE Combined("kPartial_Combine",
                       [last EXCEPT !.fLastY = last.fFirstY - 1,
                                    !.fWinding = edge.fWinding])
    ELSE Combined("kNo_Combine", last)

CombineVerticalKeepsWinding(edge, last) ==
    IF last.fCurveCount # 0 \/ last.fDX # 0 \/ edge.fX # last.fX
    THEN Combined("kNo_Combine", last)
    ELSE IF edge.fWinding = last.fWinding
    THEN IF edge.fLastY + 1 = last.fFirstY
         THEN Combined("kPartial_Combine", [last EXCEPT !.fFirstY = edge.fFirstY])
         ELSE IF edge.fFirstY = last.fLastY + 1
         THEN Combined("kPartial_Combine", [last EXCEPT !.fLastY = edge.fLastY])
         ELSE Combined("kNo_Combine", last)
    ELSE IF edge.fFirstY = last.fFirstY
    THEN IF edge.fLastY = last.fLastY
         THEN Combined("kTotal_Combine", last)
         ELSE IF edge.fLastY < last.fLastY
         THEN Combined("kPartial_Combine", [last EXCEPT !.fFirstY = edge.fLastY + 1])
         ELSE Combined("kPartial_Combine",
                       [last EXCEPT !.fFirstY = last.fLastY + 1,
                                    !.fLastY = edge.fLastY])
    ELSE IF edge.fLastY = last.fLastY
    THEN IF edge.fFirstY > last.fFirstY
         THEN Combined("kPartial_Combine", [last EXCEPT !.fLastY = edge.fFirstY - 1])
         ELSE Combined("kPartial_Combine",
                       [last EXCEPT !.fLastY = last.fFirstY - 1,
                                    !.fFirstY = edge.fFirstY])
    ELSE Combined("kNo_Combine", last)

\* SkBasicEdgeBuilder::combineVertical(edge, last)
CombineVertical(edge, last) ==
    IF last.fCurveCount # 0 \/ last.fDX # 0 \/ edge.fX # last.fX
    THEN Combined("kNo_Combine", last)
    ELSE IF edge.fWinding = last.fWinding
    THEN IF edge.fLastY + 1 = last.fFirstY
         THEN Combined("kPartial_Combine", [last EXCEPT !.fFirstY = edge.fFirstY])
         ELSE IF edge.fFirstY = last.fLastY + 1
         THEN Combined("kPartial_Combine", [last EXCEPT !.fLastY = edge.fLastY])
         ELSE Combined("kNo_Combine", last)
    ELSE IF edge.fFirstY = last.fFirstY
    THEN IF edge.fLastY = last.fLastY
         THEN Combined("kTotal_Combine", last)
         ELSE IF edge.fLastY < last.fLastY
         THEN Combined("kPartial_Combine", [last EXCEPT !.fFirstY = edge.fLastY + 1])
         ELSE Combined("kPartial_Combine",
                       [last EXCEPT !.fFirstY = last.fLastY + 1,
                                    !.fLastY = edge.fLastY,
                                    !.fWinding = edge.fWinding])
    ELSE IF edge.fLastY = last.fLastY
    THEN IF edge.fFirstY > last.fFirstY
         THEN Combined("kPartial_Combine", [last EXCEPT !.fLastY = edge.fFirstY - 1])
         ELSE Combined("kPartial_Combine",
                       [last EXCEPT !.fLastY = last.fFirstY - 1,
                                    !.fFirstY = edge.fFirstY,
                                    !.fWinding = edge.fWinding])
    ELSE Combined("kNo_Combine", last)

\* is_vertical(edge)
IsVertical(edge) == edge.fDX = 0 /\ edge.fCurveCount = 0

\* what edge->setLine / setQuadratic comes to: the edge it fills in, or a rejection
Made(edge) == [ok |-> TRUE, edge |-> edge]
Rejected == [ok |-> FALSE, edge |-> Edge(0, 0, 0, 0, 0, 0)]

ApplyCombineKeepsTop(list, edge, c) ==
    CASE c.combine = "kTotal_Combine"   -> list
      [] c.combine = "kPartial_Combine" -> [list EXCEPT ![Len(list)] = c.last]
      [] c.combine = "kNo_Combine"      -> Append(list, edge)

\* the switch of addLine and of buildPoly's loop on the Combine: the list after it
ApplyCombine(list, edge, c) ==
    CASE c.combine = "kTotal_Combine"   -> SubSeq(list, 1, Len(list) - 1)
      [] c.combine = "kPartial_Combine" -> [list EXCEPT ![Len(list)] = c.last]
      [] c.combine = "kNo_Combine"      -> Append(list, edge)

AddLineAlwaysAppends(list, made) == IF made.ok THEN Append(list, made.edge) ELSE list

\* SkBasicEdgeBuilder::addLine(pts), given what setLine makes of pts
AddLine(list, made) ==
    IF made.ok
    THEN LET edge == made.edge
         IN IF IsVertical(edge) /\ list # <<>>
            THEN ApplyCombine(list, edge, CombineVertical(edge, Last(list)))
            ELSE Append(list, edge)
    ELSE list

\* SkBasicEdgeBuilder::addQuad(pts), given what setQuadratic makes of pts
AddQuad(list, made) == IF made.ok THEN Append(list, made.edge) ELSE list

\* SkBasicEdgeBuilder::addCubic(pts), given what setCubic makes of pts
AddCubic(list, made) == IF made.ok THEN Append(list, made.edge) ELSE list

\* SkBasicEdgeBuilder::addPolyLine(pts, edge, edgePtr) and the switch of buildPoly on
\* what it returns; list is fEdgeList[0 .. edgePtr)
AddPolyLine(list, made) ==
    IF made.ok
    THEN LET edge == made.edge
         IN IF IsVertical(edge) /\ Len(list) > 0
            THEN ApplyCombine(list, edge, CombineVertical(edge, Last(list)))
            ELSE Append(list, edge)
    ELSE list

\* the scan lines and columns the model's edges live on
ScanLines == 0 .. 2
Columns == 0 .. 3

\* the edges setLine makes in EdgeSpec: every vertical edge of columns 0 and 1, and a
\* slanted one
LineEdges ==
    {Edge(x, 0, r[1], r[2], w, 0) :
        x \in {0, 1}, r \in {q \in ScanLines \X ScanLines : q[1] <= q[2]}, w \in {1, -1}}
    \cup {Edge(0, 1, 0, 2, 1, 0)}

\* the edges setQuadratic and setCubic make in EdgeSpec: curves whose first line
\* segment is vertical, in the columns of the vertical line edges
QuadEdges == {Edge(0, 0, 0, 1, 1, 1)}
CubicEdges == {Edge(1, 0, 1, 2, -1, -2)}

\* x of the edge on scan line y
XAt(e, y) == e.fX + (y - e.fFirstY) * e.fDX

\* winding number at (x, y): the windings of the edges that cross scan line y at or
\* left of x
RECURSIVE WindingAt(_, _, _)
WindingAt(list, x, y) ==
    IF list = <<>> THEN 0
    ELSE LET e == Head(list)
         IN (IF e.fFirstY <= y /\ y <= e.fLastY /\ XAt(e, y) <= x
             THEN e.fWinding ELSE 0)
            + WindingAt(Tail(list), x, y)

IdleBuild ==
    [pc |-> "idle", path |-> <<>>, iclip |-> FALSE, poly |-> FALSE, pending |-> <<>>,
     is_finite |-> TRUE, nonFinite |-> FALSE, count |-> 0]

---------------------------------------------------------------------------
(* next_image_filter_unique_id; graphs of filter nodes *)

MaxIdCalls == 3         \* most calls of next_image_filter_unique_id in a run
MaxInputs == 2          \* most input slots of a node (GraphSpec)

Int32Max == 2147483647
Int32Min == (-Int32Max) - 1

\* sk_atomic_inc(&gImageFilterUniqueID): the counter after the fetch-and-add, which
\* wraps
Inc32(count) == IF count = Int32Max THEN Int32Min ELSE count + 1

\* "+ 1" on the int32_t that sk_atomic_inc returned; at INT32_MAX the signed addition
\* overflows, which builds compile to the wrapping add
PlusOne(prev) == IF prev = Int32Max THEN {Int32Min} ELSE {prev + 1}

RetryNever(id) == FALSE

\* do { ... } while (0 == id)
Retry(id) == 0 = id

Callers == {"A", "B"}
IdleCaller == [pc |-> "idle", id |-> 0, loops |-> 0]

\* values of gImageFilterUniqueID the process reaches: at start, just before the
\* counter passes INT32_MAX, and just before it comes back to 0
StartCounts == {0, Int32Max - 1, -3}

\* a <= b as uint32_t
UnsignedLeq(a, b) ==
    IF a >= 0 THEN (b < 0 \/ a <= b) ELSE (b < 0 /\ a <= b)

\* id was returned while the counter went from 0 to start, without passing 0 again
IssuedBefore(id, start) == id # 0 /\ start # 0 /\ UnsignedLeq(id, start)

\* the nodes of GraphSpec, in the order they are constructed
GraphIds == <<"G1", "G2", "G3">>

\* SkImageFilter(int inputCount, SkReadBuffer&): unflattened is what Common::unflatten
\* returned, inputs what it read
NewNodeFromBuffer(uniqueID, unflattened, inputs, built, overrides) ==
    IF unflattened
    THEN [alive |-> TRUE, fUniqueID |-> uniqueID, fInputs |-> inputs,
          fUsesSrcInput |-> UsesSrcInput(inputs, built), fCacheKeys |-> <<>>,
          overrides |-> overrides]
    ELSE [alive |-> TRUE, fUniqueID |-> uniqueID, fInputs |-> <<>>,
          fUsesSrcInput |-> FALSE, fCacheKeys |-> <<>>, overrides |-> overrides]

\* no thread in filterImage, every mutex free, no image made; nothing called yet
ThreadsIdle ==
    /\ threads = [t \in {"T1", "T2"} |-> [pc |-> "idle", node |-> "none", result |-> NullImage]]
    /\ fMutex = [m \in {"cache"} \cup NodeIds |-> "free"]
    /\ heap = <<>>
    /\ inputCall = [op |-> "none"]
    /\ crop = [op |-> "none"]
    /\ unflat = [op |-> "none"]
    /\ cull = [op |-> "none"]

\* the rest of the process at rest: no caller in next_image_filter_unique_id, no graph
ProcessIdle ==
    /\ gImageFilterUniqueID = 0
    /\ callers = [t \in Callers |-> IdleCaller]
    /\ issued = [start |-> 0, ids |-> <<>>]
    /\ graph = <<>>
    /\ ThreadsIdle

---------------------------------------------------------------------------
(* Spec: the operations of one CacheImpl, created by Cache::Create(maxBytes) *)

UnderTest == "local"

K(i) == MakeKey(i, "I", <<0, 0, 8, 8>>, 0, EmptySubset)

\* the end-to-end scenarios of the cache, as operations on a fresh cache
Scripts ==
    [lru      |-> [maxBytes |-> 300,
                   ops |-> << <<"set", K(1), 100>>, <<"set", K(2), 100>>, <<"set", K(3), 100>>,
                              <<"get", K(1), 0>>, <<"set", K(4), 100>> >>],
     oversize |-> [maxBytes |-> 100,
                   ops |-> << <<"set", K(1), 500>>, <<"set", K(2), 100>> >>]]

OffScript == [name |-> "off", step |-> 0]

FollowScript(maxBytes, event) ==
    IF script.name = "start"
    THEN IF \E n \in DOMAIN Scripts :
                Scripts[n].maxBytes = maxBytes /\ Scripts[n].ops[1] = event
         THEN [name |-> CHOOSE n \in DOMAIN Scripts :
                           Scripts[n].maxBytes = maxBytes /\ Scripts[n].ops[1] = event,
               step |-> 1]
         ELSE OffScript
    ELSE IF /\ script.name \in DOMAIN Scripts
            /\ script.step < Len(Scripts[script.name].ops)
            /\ Scripts[script.name].ops[script.step + 1] = event
         THEN [script EXCEPT !.step = @ + 1]
         ELSE OffScript

NoResult == [found |-> FALSE, image |-> NullImage, bitmap |-> EmptyBitmap, offset |-> NoOffset]
NoReplace == [step |-> 0, key |-> NoKey, first |-> NoResult, second |-> NoResult]

Init ==
    /\ \E m \in MaxBytesChoices :
          caches = [id \in CacheIds |->
                       IF id = "global" THEN NewCache(kDefaultCacheSize) ELSE NewCache(m)]
    /\ lastOp = [op |-> "create", key |-> NoKey, result |-> NoResult]
    /\ useOrder = [id \in CacheIds |-> <<>>]
    /\ script = [name |-> "start", step |-> 0]
    /\ replaced = NoReplace
    /\ nodes = InitNodes
    /\ calls = [last |-> NoCall, first |-> NoCall]
    /\ fList = <<>>
    /\ unfused = <<>>
    /\ build = IdleBuild
    /\ ProcessIdle

\* history: the keys an operation removed leave the order of use; the key it used
\* (looked up with a hit, or set) becomes the most recently used one
Track(id, c2, usedKey) ==
    LET gone == Range(c2.removed) \ PresentKeys(c2)
        u0   == SeqRemoveAll(useOrder[id], gone)
    IN useOrder' = [useOrder EXCEPT ![id] =
                       IF usedKey \in PresentKeys(c2) THEN Touch(u0, usedKey) ELSE u0]

Get(key) ==
    LET c  == caches[UnderTest]
        c2 == CacheGet(c, key)
    IN /\ caches' = [caches EXCEPT ![UnderTest] = c2]
       /\ lastOp' = [op |-> "get", key |-> key, result |-> GetResult(c, key)]
       /\ Track(UnderTest, c2, key)
       /\ script' = FollowScript(c.fMaxBytes, <<"get", key, 0>>)
       /\ replaced' = IF replaced.step = 2 /\ replaced.key = key
                      THEN [replaced EXCEPT !.step = 3]
                      ELSE NoReplace
       /\ UNCHANGED <<callVars, concVars, idVars, graph, filterVars, edgeVars>>

SetEither(key, value, size, c2) ==
    /\ caches' = [caches EXCEPT ![UnderTest] = c2]
    /\ lastOp' = [op |-> "set", key |-> key, result |-> value]
    /\ Track(UnderTest, c2, key)
    /\ script' = FollowScript(c2.fMaxBytes, <<"set", key, size>>)
    /\ replaced' = IF replaced.step \in {1, 2} /\ replaced.key = key
                   THEN [step |-> 2, key |-> key,
                         first |-> IF replaced.step = 1 THEN replaced.first
                                   ELSE replaced.second,
                         second |-> value]
                   ELSE [step |-> 1, key |-> key, first |-> value, second |-> NoResult]
    /\ UNCHANGED <<callVars, concVars, idVars, graph, filterVars, edgeVars>>

Set(key, image, offset) ==
    SetEither(key,
              [found |-> TRUE, image |-> image, bitmap |-> EmptyBitmap, offset |-> offset],
              image.size,
              CacheSet(caches[UnderTest], key, image, offset))

SetBitmap(key, bitmap, offset) ==
    SetEither(key,
              [found |-> TRUE, image |-> NullImage, bitmap |-> bitmap, offset |-> offset],
              bitmap.size,
              CacheSetBitmap(caches[UnderTest], key, bitmap, offset))

Purge ==
    LET c2 == CachePurge(caches[UnderTest])
    IN /\ caches' = [caches EXCEPT ![UnderTest] = c2]
       /\ lastOp' = [op |-> "purge", key |-> NoKey, result |-> NoResult]
       /\ Track(UnderTest, c2, NoKey)
       /\ script' = OffScript
       /\ replaced' = NoReplace
       /\ UNCHANGED <<callVars, concVars, idVars, graph, filterVars, edgeVars>>

PurgeByKeys(keys) ==
    LET c2 == CachePurgeByKeys(caches[UnderTest], keys)
    IN /\ caches' = [caches EXCEPT ![UnderTest] = c2]
       /\ lastOp' = [op |-> "purgeByKeys", key |-> NoKey, result |-> NoResult,
                     keys |-> keys]
       /\ Track(UnderTest, c2, NoKey)
       /\ script' = OffScript
       /\ replaced' = NoReplace
       /\ UNCHANGED <<callVars, concVars, idVars, graph, filterVars, edgeVars>>

Next ==
    \/ \E key \in UnitKeys : Get(key)
    \/ \E key \in UnitKeys, r \in UnitResults : Set(key, r[1], r[2])
    \/ \E key \in UnitKeys, bitmap \in UnitBitmaps : SetBitmap(key, bitmap, <<3, 4>>)
    \/ Purge
    \/ \E keys \in SeqsUpTo(UnitKeys, MaxPurgeKeys) : PurgeByKeys(keys)

Spec == Init /\ [][Next]_vars

---------------------------------------------------------------------------
(* FilterSpec: nodes evaluated by filterImage and destroyed. One evaluator; every  *)
(* call runs to its return before the next action.                                  *)

\* the caller's own cache is Cache::Create(100)
FilterInit ==
    /\ caches = [id \in CacheIds |->
                    IF id = "global" THEN NewCache(kDefaultCacheSize) ELSE NewCache(100)]
    /\ lastOp = [op |-> "create", key |-> NoKey, result |-> NoResult]
    /\ useOrder = [id \in CacheIds |-> <<>>]
    /\ script = OffScript
    /\ replaced = NoReplace
    /\ nodes = InitNodes
    /\ calls = [last |-> NoCall, first |-> NoCall]
    /\ fList = <<>>
    /\ unfused = <<>>
    /\ build = IdleBuild
    /\ ProcessIdle

FilterKeyOfSource(node, src, ctx) ==
    MakeKey(node.fUniqueID, ctx.ctm, ctx.clipBounds, src.uid, src.subset)

\* filterImage: srcGenID, srcSubset and the key
FilterKey(node, src, ctx) ==
    MakeKey(node.fUniqueID, ctx.ctm, ctx.clipBounds,
            IF node.fUsesSrcInput THEN src.uid ELSE 0,
            IF node.fUsesSrcInput THEN src.subset ELSE EmptySubset)

\* filterImageDeprecated: the key
DeprecatedKey(node, src, ctx) ==
    MakeKey(node.fUniqueID, ctx.ctm, ctx.clipBounds,
            IF node.fUsesSrcInput THEN src.gen ELSE 0,
            EmptySubset)

\* what the calls below a filterImage can come to; they are outside this code
Outcomes(node) ==
    IF node.overrides THEN {"ok", "null"}
    ELSE {"ok", "getBMFails", "fails", "fromBMFails"}

\* st: [caches, keys], the caches and the node's fCacheKeys as the call proceeds

\* SkImageFilter::filterImageDeprecated
FilterImageDeprecated(st, node, src, ctx, outcome) ==
    LET key      == DeprecatedKey(node, src, ctx)
        hasCache == ctx.cache # "none"
        probe    == IF hasCache THEN GetResult(st.caches[ctx.cache], key) ELSE NoResult
        st1      == IF hasCache
                    THEN [st EXCEPT !.caches[ctx.cache] = CacheGet(@, key)]
                    ELSE st
    IN IF probe.found
       THEN [st |-> st1, ok |-> TRUE, bitmap |-> probe.bitmap]
       ELSE IF outcome = "fails"
       THEN [st |-> st1, ok |-> FALSE, bitmap |-> EmptyBitmap]
       ELSE [st |-> IF hasCache
                    THEN [caches |-> [st1.caches EXCEPT ![ctx.cache] =
                                         CacheSetBitmap(@, key, LegacyBitmap, FilterOffset)],
                          keys |-> Append(st1.keys, key)]
                    ELSE st1,
             ok |-> TRUE, bitmap |-> LegacyBitmap]

\* the virtual onFilterImage: a subclass's own, or SkImageFilter::onFilterImage
OnFilterImage(st, node, src, ctx, outcome) ==
    IF node.overrides
    THEN [st |-> st, result |-> IF outcome = "ok" THEN FilterResult ELSE NullImage]
    ELSE IF outcome = "getBMFails"
    THEN [st |-> st, result |-> NullImage]
    ELSE LET d == FilterImageDeprecated(st, node, src, ctx, outcome)
         IN [st |-> d.st,
             result |-> IF d.ok /\ outcome # "fromBMFails"
                        THEN ImageFromBitmap(d.bitmap)
                        ELSE NullImage]

ProbeIsMiss(c, key) == NoResult

\* filterImage: context.cache()->get(key, offset)
Probe(c, key) == GetResult(c, key)

StoreEvenNull(st, ctx, key, result) ==
    IF ctx.cache # "none"
    THEN [caches |-> [st.caches EXCEPT ![ctx.cache] = CacheSet(@, key, result, FilterOffset)],
          keys |-> Append(st.keys, key)]
    ELSE st

\* filterImage: if (result && context.cache()) { set(key, result, *offset);
\*                                               fCacheKeys.push_back(key); }
Store(st, ctx, key, result) ==
    IF result # NullImage /\ ctx.cache # "none"
    THEN [caches |-> [st.caches EXCEPT ![ctx.cache] = CacheSet(@, key, result, FilterOffset)],
          keys |-> Append(st.keys, key)]
    ELSE st

\* SkImageFilter::filterImage, from call to return
FilterImageCall(st, node, src, ctx, outcome) ==
    LET key      == FilterKey(node, src, ctx)
        hasCache == ctx.cache # "none"
        probe    == IF hasCache THEN Probe(st.caches[ctx.cache], key) ELSE NoResult
        st0      == IF hasCache
                    THEN [st EXCEPT !.caches[ctx.cache] = CacheGet(@, key)]
                    ELSE st
    IN IF probe.image # NullImage
       THEN [st |-> st0, result |-> probe.image, computed |-> FALSE]
       ELSE LET r == OnFilterImage(st0, node, src, ctx, outcome)
            IN [st |-> Store(r.st, ctx, key, r.result), result |-> r.result,
                computed |-> TRUE]

\* history: removed keeps, per cache, what the last action removed from it
Settle(cs, touched) ==
    [id \in CacheIds |-> IF id \in touched THEN cs[id] ELSE Locked(cs[id])]

FilterImage(n, src, ctx, outcome) ==
    /\ nodes[n].alive
    /\ outcome \in Outcomes(nodes[n])
    /\ LET node == nodes[n]
           key  == FilterKey(node, src, ctx)
           r    == FilterImageCall([caches |-> caches, keys |-> node.fCacheKeys],
                                   node, src, ctx, outcome)
           this == [node |-> n, key |-> key, cache |-> ctx.cache,
                    computed |-> r.computed, null |-> r.result = NullImage,
                    src |-> src, image |-> r.result]
       IN /\ Len(r.st.keys) <= MaxCacheKeys
          /\ caches' = Settle(r.st.caches, {ctx.cache})
          /\ nodes' = [nodes EXCEPT ![n].fCacheKeys = r.st.keys]
          /\ calls' = [last |-> this,
                       first |-> IF /\ ctx.cache # "none"
                                    /\ calls.last.node = n
                                    /\ calls.last.cache = ctx.cache
                                 THEN calls.last
                                 ELSE NoCall]
    /\ UNCHANGED <<callVars, concVars, idVars, graph, unitVars, edgeVars>>

\* SkImageFilter::~SkImageFilter
DestroyNode(n) ==
    /\ nodes[n].alive
    /\ caches' = Settle([caches EXCEPT !["global"] =
                            CachePurgeByKeys(@, nodes[n].fCacheKeys)], {"global"})
    /\ nodes' = [nodes EXCEPT ![n].alive = FALSE]
    /\ calls' = [last |-> NoCall, first |-> NoCall]
    /\ UNCHANGED <<callVars, concVars, idVars, graph, unitVars, edgeVars>>

FilterNext ==
    \/ \E n \in NodeIds, src \in Sources, ctx \in Contexts,
          outcome \in {"ok", "null", "getBMFails", "fails", "fromBMFails"} :
            FilterImage(n, src, ctx, outcome)
    \/ \E n \in NodeIds : DestroyNode(n)

FilterSpec == FilterInit /\ [][FilterNext]_vars

---------------------------------------------------------------------------
(* EdgeSpec: edges added one by one to a basic builder *)

EdgeInit ==
    /\ caches = [id \in CacheIds |->
                    IF id = "global" THEN NewCache(kDefaultCacheSize) ELSE NewCache(100)]
    /\ lastOp = [op |-> "create", key |-> NoKey, result |-> NoResult]
    /\ useOrder = [id \in CacheIds |-> <<>>]
    /\ script = OffScript
    /\ replaced = NoReplace
    /\ nodes = InitNodes
    /\ calls = [last |-> NoCall, first |-> NoCall]
    /\ fList = <<>>
    /\ unfused = <<>>
    /\ build = IdleBuild
    /\ ProcessIdle

\* addLine(pts) on the builder; unfused gets the same edge appended without fusion
CallAddLine(made) ==
    /\ Len(unfused) < MaxEdges
    /\ fList' = AddLine(fList, made)
    /\ unfused' = IF made.ok THEN Append(unfused, made.edge) ELSE unfused
    /\ UNCHANGED <<callVars, concVars, idVars, graph, caches, unitVars, filterVars, build>>

\* addQuad(pts) on the builder
CallAddQuad(made) ==
    /\ Len(unfused) < MaxEdges
    /\ fList' = AddQuad(fList, made)
    /\ unfused' = IF made.ok THEN Append(unfused, made.edge) ELSE unfused
    /\ UNCHANGED <<callVars, concVars, idVars, graph, caches, unitVars, filterVars, build>>

\* addCubic(pts) on the builder
CallAddCubic(made) ==
    /\ Len(unfused) < MaxEdges
    /\ fList' = AddCubic(fList, made)
    /\ unfused' = IF made.ok THEN Append(unfused, made.edge) ELSE unfused
    /\ UNCHANGED <<callVars, concVars, idVars, graph, caches, unitVars, filterVars, build>>

EdgeNext ==
    \/ \E made \in {Made(e) : e \in LineEdges} \cup {Rejected} : CallAddLine(made)
    \/ \E made \in {Made(e) : e \in QuadEdges} \cup {Rejected} : CallAddQuad(made)
    \/ \E made \in {Made(e) : e \in CubicEdges} \cup {Rejected} : CallAddCubic(made)

EdgeSpec == EdgeInit /\ [][EdgeNext]_vars

---------------------------------------------------------------------------
(* BuildSpec: buildEdges on a path, verb by verb *)

\* a segment of the path, or a piece a clipper gives: its verb and whether all its
\* coordinates are finite
Segment(verb, finite) == [verb |-> verb, finite |-> finite]
Segments == {Segment(v, f) : v \in {"line", "quad"}, f \in BOOLEAN}

Paths == SeqsUpTo(Segments, MaxSegs)

\* SkPath::kLine_SegmentMask == path.getSegmentMasks()
OnlyLines(path) == path # <<>> /\ \A i \in 1..Len(path) : path[i].verb = "line"

\* what setLine / setQuadratic may make of a piece
MadeOf(piece) ==
    IF piece.verb = "line"
    THEN {Rejected, Made(Edge(0, 0, 0, 1, 1, 0)), Made(Edge(0, 0, 0, 1, -1, 0))}
    ELSE {Rejected, Made(Edge(0, 1, 0, 1, 1, 1))}

\* what the clippers (SkLineClipper::ClipLine, SkEdgeClipper) and the choppers
\* (SkChopQuadAtYExtrema) may make of a segment: pieces of the same verb
PiecesOf(seg, iclip) ==
    IF iclip
    THEN {<<>>} \cup {<<Segment(seg.verb, f)>> : f \in BOOLEAN}
         \cup {<<Segment(seg.verb, f), Segment(seg.verb, g)>> : f, g \in BOOLEAN}
    ELSE IF seg.verb = "quad"
    THEN {<<seg>>, <<seg, seg>>}
    ELSE {<<seg>>}

\* buildEdges(path, shiftedClip): the choice between buildPoly and build
BuildEdges(path, iclip) ==
    /\ build.pc = "idle"
    /\ build' = [IdleBuild EXCEPT !.pc = "running", !.path = path, !.iclip = iclip,
                                  !.poly = OnlyLines(path)]
    /\ fList' = <<>>
    /\ UNCHANGED <<callVars, concVars, idVars, graph, caches, unitVars, filterVars, unfused>>

\* iter.next(pts) gives a segment; it is clipped (or chopped) into pieces
NextVerb(pieces) ==
    /\ build.pc = "running"
    /\ build.pending = <<>>
    /\ build.path # <<>>
    /\ pieces \in PiecesOf(Head(build.path), build.iclip)
    /\ build' = [build EXCEPT !.path = Tail(@), !.pending = pieces]
    /\ UNCHANGED <<callVars, concVars, idVars, graph, caches, unitVars, filterVars, fList, unfused>>

\* buildPoly: addPolyLine on the next piece
PolyPiece(made) ==
    /\ build.pc = "running"
    /\ build.poly
    /\ build.pending # <<>>
    /\ made \in MadeOf(Head(build.pending))
    /\ fList' = AddPolyLine(fList, made)
    /\ build' = [build EXCEPT !.pending = Tail(@),
                              !.nonFinite = @ \/ ~Head(build.pending).finite]
    /\ UNCHANGED <<callVars, concVars, idVars, graph, caches, unitVars, filterVars, unfused>>

\* build with a clip: apply_clipper takes the next piece from the clipper
ClippedPiece(made) ==
    /\ build.pc = "running"
    /\ ~build.poly
    /\ build.iclip
    /\ build.pending # <<>>
    /\ made \in MadeOf(Head(build.pending))
    /\ LET piece == Head(build.pending)
       IN IF ~piece.finite
          THEN /\ build' = [build EXCEPT !.is_finite = FALSE, !.pending = <<>>,
                                         !.nonFinite = TRUE]
               /\ fList' = fList
          ELSE /\ build' = [build EXCEPT !.pending = Tail(@)]
               /\ fList' = IF piece.verb = "line" THEN AddLine(fList, made)
                           ELSE AddQuad(fList, made)
    /\ UNCHANGED <<callVars, concVars, idVars, graph, caches, unitVars, filterVars, unfused>>

\* build without a clip: addLine(pts), or handle_quad's addQuad on a chopped quad
UnclippedPiece(made) ==
    /\ build.pc = "running"
    /\ ~build.poly
    /\ ~build.iclip
    /\ build.pending # <<>>
    /\ made \in MadeOf(Head(build.pending))
    /\ fList' = IF Head(build.pending).verb = "line" THEN AddLine(fList, made)
                ELSE AddQuad(fList, made)
    /\ build' = [build EXCEPT !.pending = Tail(@),
                              !.nonFinite = @ \/ ~Head(build.pending).finite]
    /\ UNCHANGED <<callVars, concVars, idVars, graph, caches, unitVars, filterVars, unfused>>

\* buildPoly returns edgePtr - fEdgeList; build returns is_finite ? fList.count() : 0
BuildCount(b, list) ==
    IF b.poly THEN Len(list)
    ELSE IF b.is_finite THEN Len(list) ELSE 0

\* kDone_Verb: the count buildEdges returns
ReturnCount ==
    /\ build.pc = "running"
    /\ build.pending = <<>>
    /\ build.path = <<>>
    /\ build' = [build EXCEPT !.pc = "done", !.count = BuildCount(build, fList)]
    /\ UNCHANGED <<callVars, concVars, idVars, graph, caches, unitVars, filterVars, fList, unfused>>

AllPieces == UNION {PiecesOf(s, c) : s \in Segments, c \in BOOLEAN}
AllMade == UNION {MadeOf(s) : s \in Segments}

BuildNext ==
    \/ \E path \in Paths, iclip \in BOOLEAN : BuildEdges(path, iclip)
    \/ \E pieces \in AllPieces : NextVerb(pieces)
    \/ \E made \in AllMade : PolyPiece(made)
    \/ \E made \in AllMade : ClippedPiece(made)
    \/ \E made \in AllMade : UnclippedPiece(made)
    \/ ReturnCount

BuildSpec == EdgeInit /\ [][BuildNext]_vars

---------------------------------------------------------------------------
(* IdSpec: concurrent callers of next_image_filter_unique_id *)

IdInit ==
    /\ caches = [id \in CacheIds |->
                    IF id = "global" THEN NewCache(kDefaultCacheSize) ELSE NewCache(100)]
    /\ lastOp = [op |-> "create", key |-> NoKey, result |-> NoResult]
    /\ useOrder = [id \in CacheIds |-> <<>>]
    /\ script = OffScript
    /\ replaced = NoReplace
    /\ nodes = InitNodes
    /\ calls = [last |-> NoCall, first |-> NoCall]
    /\ fList = <<>>
    /\ unfused = <<>>
    /\ build = IdleBuild
    /\ \E start \in StartCounts :
          /\ gImageFilterUniqueID = start
          /\ issued = [start |-> start, ids |-> <<>>]
    /\ callers = [t \in Callers |-> IdleCaller]
    /\ graph = <<>>
    /\ ThreadsIdle

\* a constructor calls next_image_filter_unique_id()
CallNextId(t) ==
    /\ callers[t].pc = "idle"
    /\ Len(issued.ids) + Cardinality({u \in Callers : callers[u].pc # "idle"}) < MaxIdCalls
    /\ callers' = [callers EXCEPT ![t] = [pc |-> "loop", id |-> 0, loops |-> 0]]
    /\ UNCHANGED <<callVars, caches, unitVars, filterVars, edgeVars, gImageFilterUniqueID, issued,
                   graph, concVars>>

\* id = sk_atomic_inc(&gImageFilterUniqueID) + 1; and the test of the loop
IncrementOnce(t, id) ==
    /\ callers[t].pc = "loop"
    /\ id \in PlusOne(gImageFilterUniqueID)
    /\ gImageFilterUniqueID' = Inc32(gImageFilterUniqueID)
    /\ callers' = [callers EXCEPT ![t] =
                      IF Retry(id)
                      THEN [pc |-> "loop", id |-> id, loops |-> @.loops + 1]
                      ELSE [pc |-> "return", id |-> id, loops |-> @.loops]]
    /\ UNCHANGED <<callVars, caches, unitVars, filterVars, edgeVars, issued, graph, concVars>>

\* return id
ReturnId(t) ==
    /\ callers[t].pc = "return"
    /\ issued' = [issued EXCEPT !.ids = Append(@, callers[t].id)]
    /\ callers' = [callers EXCEPT ![t] = IdleCaller]
    /\ UNCHANGED <<callVars, caches, unitVars, filterVars, edgeVars, gImageFilterUniqueID, graph, concVars>>

IdNext ==
    \/ \E t \in Callers : CallNextId(t)
    \/ \E t \in Callers, id \in {0, Int32Min} \cup {c + 1 : c \in (-3) .. 3}
                                \cup {Int32Max - 1, Int32Max} : IncrementOnce(t, id)
    \/ \E t \in Callers : ReturnId(t)

IdSpec == IdInit /\ [][IdNext]_vars

---------------------------------------------------------------------------
(* GraphSpec: filter nodes constructed one after another, inputs first *)

\* the input arrays a constructor may be given: null slots and nodes built before
InputArrays == SeqsUpTo({NullInput} \cup {GraphIds[i] : i \in 1..Len(graph)}, MaxInputs)

\* the nodes built so far, by name
Built == [g \in {GraphIds[i] : i \in 1..Len(graph)} |->
             graph[CHOOSE i \in 1..Len(graph) : GraphIds[i] = g]]

\* SkImageFilter(inputCount, inputs, cropRect)
Construct(inputs) ==
    /\ Len(graph) < Len(GraphIds)
    /\ graph' = Append(graph, NewNode(Len(graph) + 1, inputs, Built, TRUE))
    /\ UNCHANGED <<callVars, caches, unitVars, filterVars, edgeVars, idVars, concVars>>

\* SkImageFilter(inputCount, buffer)
ConstructFromBuffer(unflattened, inputs) ==
    /\ Len(graph) < Len(GraphIds)
    /\ graph' = Append(graph,
                       NewNodeFromBuffer(Len(graph) + 1, unflattened, inputs, Built, TRUE))
    /\ UNCHANGED <<callVars, caches, unitVars, filterVars, edgeVars, idVars, concVars>>

GraphNext ==
    \/ \E inputs \in InputArrays : Construct(inputs)
    \/ \E unflattened \in BOOLEAN, inputs \in InputArrays :
          ConstructFromBuffer(unflattened, inputs)

GraphSpec == EdgeInit /\ [][GraphNext]_vars

---------------------------------------------------------------------------
(* ConcSpec: threads evaluating and destroying nodes against the process-wide cache *)

MaxImages == 2          \* most images onFilterImage makes in a run

Threads == {"T1", "T2"}
Mutexes == {"cache"} \cup NodeIds   \* CacheImpl::fMutex of Cache::Get(), and each node's
IdleThread == [pc |-> "idle", node |-> "none", result |-> NullImage]

\* the source and the context every evaluation of ConcSpec is given
ConcSrc == CHOOSE s \in Sources : s.uid = 11
ConcCtx == CHOOSE ctx \in Contexts : ctx.cache = "global"

\* both nodes have their own onFilterImage
ConcNodes == [n \in NodeIds |-> NewNode(IF n = "N1" THEN 1 ELSE 2, <<NullInput>>, <<>>, TRUE)]

\* a thread blocked in SkAutoMutexAcquire, and the mutex it asks for
Waiting(t) ==
    threads[t].pc \in {"getLock", "setLock", "pushLock", "purgeLock", "destroyLock"}
Wanted(t) == IF threads[t].pc = "pushLock" THEN threads[t].node ELSE "cache"
Entered(pc) ==
    CASE pc = "getLock" -> "get"
      [] pc = "setLock" -> "set"
      [] pc = "pushLock" -> "push"
      [] pc = "purgeLock" -> "purge"
      [] pc = "destroyLock" -> "destroy"

HeldAcrossPush(t) == t

\* CacheImpl::set returns: its SkAutoMutexAcquire goes out of scope
ReleasedBySet(t) == "free"

\* reference counts after a cache operation: Value's constructor took a reference on
\* the image of each value that came in, "delete v" dropped the one of each that left
Recount(refs, before, after) ==
    [i \in 1..Len(refs) |->
        refs[i] + Cardinality({v \in after.fLookup \ before.fLookup : v.fImage.uid = i})
                - Cardinality({v \in before.fLookup \ after.fLookup : v.fImage.uid = i})]

ConcInit ==
    /\ caches = [id \in CacheIds |->
                    IF id = "global" THEN NewCache(kDefaultCacheSize) ELSE NewCache(100)]
    /\ lastOp = [op |-> "create", key |-> NoKey, result |-> NoResult]
    /\ useOrder = [id \in CacheIds |-> <<>>]
    /\ script = OffScript
    /\ replaced = NoReplace
    /\ nodes = ConcNodes
    /\ calls = [last |-> NoCall, first |-> NoCall]
    /\ fList = <<>>
    /\ unfused = <<>>
    /\ build = IdleBuild
    /\ ProcessIdle

\* a thread calls filterImage on a live node
BeginFilterImage(t, n) ==
    /\ threads[t].pc = "idle"
    /\ nodes[n].alive
    /\ threads' = [threads EXCEPT ![t] = [pc |-> "getLock", node |-> n, result |-> NullImage]]
    /\ UNCHANGED <<callVars, caches, unitVars, filterVars, edgeVars, idVars, graph, fMutex, heap>>

\* SkAutoMutexAcquire mutex(fMutex), of the cache or of the node
Acquire(t) ==
    /\ Waiting(t)
    /\ fMutex[Wanted(t)] = "free"
    /\ fMutex' = [fMutex EXCEPT ![Wanted(t)] = t]
    /\ threads' = [threads EXCEPT ![t].pc = Entered(@)]
    /\ UNCHANGED <<callVars, caches, unitVars, filterVars, edgeVars, idVars, graph, heap>>

\* filterImage: result = context.cache()->get(key, offset), the pointer v->fImage
LookUp(t) ==
    /\ threads[t].pc = "get"
    /\ LET key == FilterKey(nodes[threads[t].node], ConcSrc, ConcCtx)
           got == Probe(caches["global"], key)
       IN /\ caches' = [caches EXCEPT !["global"] = CacheGet(@, key)]
          /\ threads' = [threads EXCEPT ![t].result = got.image,
                                        ![t].pc = IF got.image # NullImage THEN "ref"
                                                  ELSE "compute"]
    /\ fMutex' = [fMutex EXCEPT !["cache"] = "free"]
    /\ UNCHANGED <<callVars, unitVars, filterVars, edgeVars, idVars, graph, heap>>

\* filterImage: return SkRef(result); on an image already deleted the behaviour is
\* undefined and the thread is followed no further
TakeRef(t) ==
    /\ threads[t].pc = "ref"
    /\ IF heap[threads[t].result.uid] > 0
       THEN /\ heap' = [heap EXCEPT ![threads[t].result.uid] = @ + 1]
            /\ threads' = [threads EXCEPT ![t].pc = "done"]
       ELSE /\ heap' = heap
            /\ threads' = [threads EXCEPT ![t].pc = "freed"]
    /\ UNCHANGED <<callVars, caches, unitVars, filterVars, edgeVars, idVars, graph, fMutex>>

\* filterImage: result = this->onFilterImage(src, context, offset), a new image the
\* caller owns, or null
Compute(t, made) ==
    /\ threads[t].pc = "compute"
    /\ IF made
       THEN /\ Len(heap) < MaxImages
            /\ heap' = Append(heap, 1)
            /\ threads' = [threads EXCEPT ![t].result = [uid |-> Len(heap) + 1, size |-> 100],
                                          ![t].pc = "setLock"]
       ELSE /\ heap' = heap
            /\ threads' = [threads EXCEPT ![t].result = NullImage, ![t].pc = "done"]
    /\ UNCHANGED <<callVars, caches, unitVars, filterVars, edgeVars, idVars, graph, fMutex>>

\* filterImage: context.cache()->set(key, result, *offset)
Insert(t) ==
    /\ threads[t].pc = "set"
    /\ LET key == FilterKey(nodes[threads[t].node], ConcSrc, ConcCtx)
           after == CacheSet(caches["global"], key, threads[t].result, FilterOffset)
       IN /\ caches' = [caches EXCEPT !["global"] = after]
          /\ heap' = Recount(heap, caches["global"], after)
    /\ fMutex' = [fMutex EXCEPT !["cache"] = ReleasedBySet(t)]
    /\ threads' = [threads EXCEPT ![t].pc = "pushLock"]
    /\ UNCHANGED <<callVars, unitVars, filterVars, edgeVars, idVars, graph>>

\* filterImage: fCacheKeys.push_back(key), under the node's mutex
RecordKey(t) ==
    /\ threads[t].pc = "push"
    /\ LET n == threads[t].node
       IN /\ nodes' = [nodes EXCEPT ![n].fCacheKeys =
                          Append(@, FilterKey(nodes[n], ConcSrc, ConcCtx))]
          /\ fMutex' = [fMutex EXCEPT ![n] = "free"]
    /\ threads' = [threads EXCEPT ![t].pc = "done"]
    /\ UNCHANGED <<callVars, caches, unitVars, calls, edgeVars, idVars, graph, heap>>

\* filterImage returns; the caller drops the reference it was given
ReturnImage(t) ==
    /\ threads[t].pc = "done"
    /\ heap' = IF threads[t].result # NullImage
               THEN [heap EXCEPT ![threads[t].result.uid] = @ - 1]
               ELSE heap
    /\ threads' = [threads EXCEPT ![t] = IdleThread]
    /\ UNCHANGED <<callVars, caches, unitVars, filterVars, edgeVars, idVars, graph, fMutex>>

\* a thread calls SkImageFilter::PurgeCache()
BeginPurgeCache(t) ==
    /\ threads[t].pc = "idle"
    /\ threads' = [threads EXCEPT ![t].pc = "purgeLock"]
    /\ UNCHANGED <<callVars, caches, unitVars, filterVars, edgeVars, idVars, graph, fMutex, heap>>

\* Cache::Get()->purge()
PurgeAll(t) ==
    /\ threads[t].pc = "purge"
    /\ LET after == CachePurge(caches["global"])
       IN /\ caches' = [caches EXCEPT !["global"] = after]
          /\ heap' = Recount(heap, caches["global"], after)
    /\ fMutex' = [fMutex EXCEPT !["cache"] = "free"]
    /\ threads' = [threads EXCEPT ![t] = IdleThread]
    /\ UNCHANGED <<callVars, unitVars, filterVars, edgeVars, idVars, graph>>

\* a thread destroys a node no thread is evaluating
BeginDestroy(t, n) ==
    /\ threads[t].pc = "idle"
    /\ nodes[n].alive
    /\ \A u \in Threads : threads[u].node # n
    /\ nodes' = [nodes EXCEPT ![n].alive = FALSE]
    /\ threads' = [threads EXCEPT ![t] = [pc |-> "destroyLock", node |-> n,
                                          result |-> NullImage]]
    /\ UNCHANGED <<callVars, caches, unitVars, calls, edgeVars, idVars, graph, fMutex, heap>>

\* ~SkImageFilter: Cache::Get()->purgeByKeys(fCacheKeys.begin(), fCacheKeys.count())
DestroyPurge(t) ==
    /\ threads[t].pc = "destroy"
    /\ LET after == CachePurgeByKeys(caches["global"], nodes[threads[t].node].fCacheKeys)
       IN /\ caches' = [caches EXCEPT !["global"] = after]
          /\ heap' = Recount(heap, caches["global"], after)
    /\ fMutex' = [fMutex EXCEPT !["cache"] = "free"]
    /\ threads' = [threads EXCEPT ![t] = IdleThread]
    /\ UNCHANGED <<callVars, unitVars, filterVars, edgeVars, idVars, graph>>

ConcNext ==
    \/ \E t \in Threads, n \in NodeIds : BeginFilterImage(t, n)
    \/ \E t \in Threads : Acquire(t)
    \/ \E t \in Threads : LookUp(t)
    \/ \E t \in Threads : TakeRef(t)
    \/ \E t \in Threads, made \in BOOLEAN : Compute(t, made)
    \/ \E t \in Threads : Insert(t)
    \/ \E t \in Threads : RecordKey(t)
    \/ \E t \in Threads : ReturnImage(t)
    \/ \E t \in Threads : BeginPurgeCache(t)
    \/ \E t \in Threads : PurgeAll(t)
    \/ \E t \in Threads, n \in NodeIds : BeginDestroy(t, n)
    \/ \E t \in Threads : DestroyPurge(t)

ConcSpec == ConcInit /\ [][ConcNext]_vars

---------------------------------------------------------------------------
(* InputSpec: filterInput on a node with a null input and a filter input *)

\* the node whose inputs are evaluated: slot 0 is null, slot 1 is N1
InputParent == NewNode(3, <<NullInput, "N1">>, InitNodes, TRUE)

\* src as the image SkRef(src) hands back
SrcImage(src) == [uid |-> src.uid, size |-> 64]

\* SkImageFilter::onFilterNodeBounds copies src; overridden: the node's class has its
\* own, here one that grows the rectangle by a pixel on every side
OnFilterNodeBounds(overridden, src, ctm, direction) ==
    IF overridden THEN <<src[1] - 1, src[2] - 1, src[3] + 1, src[4] + 1>> ELSE src

MapContextDropsCache(overridden, ctx) ==
    [ctm |-> ctx.ctm,
     clipBounds |-> OnFilterNodeBounds(overridden, ctx.clipBounds, ctx.ctm, "kReverse"),
     cache |-> "none"]

\* SkImageFilter::mapContext
MapContext(overridden, ctx) ==
    [ctm |-> ctx.ctm,
     clipBounds |-> OnFilterNodeBounds(overridden, ctx.clipBounds, ctx.ctm, "kReverse"),
     cache |-> ctx.cache]

\* result->makeTextureImage(proxy, context): a texture-backed copy, or null when the
\* upload fails
TextureCopy(image) == [uid |-> 6, size |-> image.size]
MakeTextureImage(image, uploaded) == IF uploaded THEN TextureCopy(image) ELSE NullImage

\* filterInput after input->filterImage returned result (SK_SUPPORT_GPU): srcTexture
\* and resultTexture are what peekTexture() answers on src and on result
KeepOnGpu(result, srcTexture, resultTexture, uploaded) ==
    IF srcTexture /\ result # NullImage /\ ~resultTexture
    THEN MakeTextureImage(result, uploaded)
    ELSE result

\* SkImageFilter::filterInput(index, src, ctx, offset) on InputParent
FilterInput(index, src, ctx, overridden, srcTexture, resultTexture, outcome, uploaded) ==
    LET input == InputParent.fInputs[index + 1]
    IN IF input = NullInput
       THEN /\ caches' = Settle(caches, {})
            /\ nodes' = nodes
            /\ inputCall' = [op |-> "filterInput", index |-> index, input |-> input,
                             src |-> src, ctx |-> ctx, inputCtx |-> ctx, called |-> FALSE,
                             srcTexture |-> srcTexture, resultTexture |-> resultTexture,
                             result |-> NullImage, returned |-> SrcImage(src)]
       ELSE /\ nodes[input].alive
            /\ outcome \in Outcomes(nodes[input])
            /\ LET inputCtx == MapContext(overridden, ctx)
                   r == FilterImageCall([caches |-> caches, keys |-> nodes[input].fCacheKeys],
                                        nodes[input], src, inputCtx, outcome)
               IN /\ Len(r.st.keys) <= MaxCacheKeys
                  /\ caches' = Settle(r.st.caches, {ctx.cache})
                  /\ nodes' = [nodes EXCEPT ![input].fCacheKeys = r.st.keys]
                  /\ inputCall' = [op |-> "filterInput", index |-> index, input |-> input,
                                   src |-> src, ctx |-> ctx, inputCtx |-> inputCtx,
                                   called |-> TRUE,
                                   srcTexture |-> srcTexture,
                                   resultTexture |-> resultTexture,
                                   result |-> r.result,
                                   returned |-> KeepOnGpu(r.result, srcTexture,
                                                          resultTexture, uploaded)]

CallFilterInput(index, src, ctx, overridden, srcTexture, resultTexture, outcome, uploaded) ==
    /\ FilterInput(index, src, ctx, overridden, srcTexture, resultTexture, outcome, uploaded)
    /\ UNCHANGED <<unitVars, calls, edgeVars, idVars, graph, concVars, crop, unflat, cull>>

\* the contexts filterInput is called with: no cache, or the local one
InputContexts == {ctx \in Contexts : ctx.cache # "global"}

\* what peekTexture() answers on src and on the result, and whether an upload works
GpuCases ==
    {[srcTexture |-> FALSE, resultTexture |-> FALSE, uploaded |-> TRUE],
     [srcTexture |-> TRUE, resultTexture |-> TRUE, uploaded |-> TRUE],
     [srcTexture |-> TRUE, resultTexture |-> FALSE, uploaded |-> TRUE],
     [srcTexture |-> TRUE, resultTexture |-> FALSE, uploaded |-> FALSE]}

InputNext ==
    \E index \in 0 .. 1, ctx \in InputContexts, overridden \in BOOLEAN, gpu \in GpuCases,
       outcome \in {"ok", "null"} :
        CallFilterInput(index, ConcSrc, ctx, overridden, gpu.srcTexture, gpu.resultTexture,
                        outcome, gpu.uploaded)

InputSpec == FilterInit /\ [][InputNext]_vars

---------------------------------------------------------------------------
(* CropSpec: CropRect::applyTo and applyCropRect *)

\* SkIRect <<fLeft, fTop, fRight, fBottom>>
Width(r) == r[3] - r[1]
Height(r) == r[4] - r[2]
IsEmpty(r) == r[1] >= r[3] \/ r[2] >= r[4]
MakeXYWH(x, y, w, h) == <<x, y, x + w, y + h>>
Max(a, b) == IF a >= b THEN a ELSE b
Min(a, b) == IF a <= b THEN a ELSE b

\* SkIRect::intersect(r): whether the two overlap, and *this afterwards
Intersect(a, b) ==
    IF /\ ~IsEmpty(a) /\ ~IsEmpty(b)
       /\ a[1] < b[3] /\ b[1] < a[3] /\ a[2] < b[4] /\ b[2] < a[4]
    THEN [ok |-> TRUE,
          rect |-> <<Max(a[1], b[1]), Max(a[2], b[2]), Min(a[3], b[3]), Min(a[4], b[4])>>]
    ELSE [ok |-> FALSE, rect |-> a]

\* SkIRect::contains(r)
Contains(a, r) ==
    /\ ~IsEmpty(r) /\ ~IsEmpty(a)
    /\ a[1] <= r[1] /\ a[2] <= r[2] /\ a[3] >= r[3] /\ a[4] >= r[4]

\* SkScalar coordinates are counted in half pixels; a matrix scales and translates
\* each axis (tx, ty in half pixels)
Matrices ==
    {[sx |-> 1, sy |-> 1, tx |-> 0, ty |-> 0],
     [sx |-> 2, sy |-> 2, tx |-> 1, ty |-> 0],
     [sx |-> -1, sy |-> 1, tx |-> 7, ty |-> -3]}

\* SkMatrix::mapRect: the bounds of the mapped corners
MapRect(m, r) ==
    <<Min(m.sx * r[1] + m.tx, m.sx * r[3] + m.tx), Min(m.sy * r[2] + m.ty, m.sy * r[4] + m.ty),
      Max(m.sx * r[1] + m.tx, m.sx * r[3] + m.tx), Max(m.sy * r[2] + m.ty, m.sy * r[4] + m.ty)>>

\* SkRect::roundOut: floor of left and top, ceiling of right and bottom, in pixels
RoundOut(r) == <<r[1] \div 2, r[2] \div 2, -((-r[3]) \div 2), -((-r[4]) \div 2)>>

\* CropRect(rect, flags); the flags are the set of edges that are present
CropEdges == {"kHasLeft_CropEdge", "kHasTop_CropEdge", "kHasWidth_CropEdge",
              "kHasHeight_CropEdge"}
CropRects ==
    {[fRect |-> r, fFlags |-> f] : r \in {<<1, 1, 6, 5>>, <<-3, 0, 4, 9>>},
                                   f \in SUBSET CropEdges}

ApplyToMovesRight(cropRect, imageBounds, ctm) ==
    LET devICropR == RoundOut(MapRect(ctm, cropRect.fRect))
        has(edge) == edge \in cropRect.fFlags
        left   == IF has("kHasLeft_CropEdge") THEN devICropR[1] ELSE imageBounds[1]
        top    == IF has("kHasTop_CropEdge") THEN devICropR[2] ELSE imageBounds[2]
        right  == IF has("kHasWidth_CropEdge") THEN left + Width(devICropR)
                  ELSE left + Width(imageBounds)
        bottom == IF has("kHasHeight_CropEdge") THEN top + Height(devICropR)
                  ELSE top + Height(imageBounds)
    IN IF cropRect.fFlags # {} THEN <<left, top, right, bottom>> ELSE imageBounds

ApplyToSizesFromOldEdges(cropRect, imageBounds, ctm) ==
    LET devICropR == RoundOut(MapRect(ctm, cropRect.fRect))
        has(edge) == edge \in cropRect.fFlags
        left   == IF has("kHasLeft_CropEdge") THEN devICropR[1] ELSE imageBounds[1]
        top    == IF has("kHasTop_CropEdge") THEN devICropR[2] ELSE imageBounds[2]
        right  == IF has("kHasWidth_CropEdge") THEN imageBounds[1] + Width(devICropR)
                  ELSE imageBounds[3]
        bottom == IF has("kHasHeight_CropEdge") THEN imageBounds[2] + Height(devICropR)
                  ELSE imageBounds[4]
    IN IF cropRect.fFlags # {} THEN <<left, top, right, bottom>> ELSE imageBounds

\* CropRect::applyTo(imageBounds, ctm, cropped): *cropped
ApplyTo(cropRect, imageBounds, ctm) ==
    LET devICropR == RoundOut(MapRect(ctm, cropRect.fRect))
        has(edge) == edge \in cropRect.fFlags
        left   == IF has("kHasLeft_CropEdge") THEN devICropR[1] ELSE imageBounds[1]
        top    == IF has("kHasTop_CropEdge") THEN devICropR[2] ELSE imageBounds[2]
        right  == IF has("kHasWidth_CropEdge") THEN left + Width(devICropR)
                  ELSE imageBounds[3]
        bottom == IF has("kHasHeight_CropEdge") THEN top + Height(devICropR)
                  ELSE imageBounds[4]
    IN IF cropRect.fFlags # {} THEN <<left, top, right, bottom>> ELSE imageBounds

ApplyCropRectKeepsOffset(cropRect, ctx, src, srcOffset, overridden, surf) ==
    LET srcBounds == MakeXYWH(srcOffset[1], srcOffset[2], src.width, src.height)
        dstBounds == OnFilterNodeBounds(overridden, srcBounds, ctx.ctm, "kForward")
        cropped   == ApplyTo(cropRect, dstBounds, ctx.ctm)
        clipped   == Intersect(cropped, ctx.clipBounds)
    IN IF ~clipped.ok
       THEN [result |-> "nullptr", srcOffset |-> srcOffset, bounds |-> clipped.rect]
       ELSE IF Contains(srcBounds, clipped.rect)
       THEN [result |-> "src", srcOffset |-> srcOffset, bounds |-> clipped.rect]
       ELSE [result |-> IF surf THEN "padded" ELSE "nullptr",
             srcOffset |-> srcOffset,
             bounds |-> clipped.rect]

\* SkImageFilter::applyCropRect(ctx, src, srcOffset, bounds): what it returns, and
\* *srcOffset and *bounds afterwards; surf: whether pad_image gets its surface
ApplyCropRect(cropRect, ctx, src, srcOffset, overridden, surf) ==
    LET srcBounds == MakeXYWH(srcOffset[1], srcOffset[2], src.width, src.height)
        dstBounds == OnFilterNodeBounds(overridden, srcBounds, ctx.ctm, "kForward")
        cropped   == ApplyTo(cropRect, dstBounds, ctx.ctm)
        clipped   == Intersect(cropped, ctx.clipBounds)
    IN IF ~clipped.ok
       THEN [result |-> "nullptr", srcOffset |-> srcOffset, bounds |-> clipped.rect]
       ELSE IF Contains(srcBounds, clipped.rect)
       THEN [result |-> "src", srcOffset |-> srcOffset, bounds |-> clipped.rect]
       ELSE [result |-> IF surf THEN "padded" ELSE "nullptr",
             srcOffset |-> <<clipped.rect[1], clipped.rect[2]>>,
             bounds |-> clipped.rect]

\* the arguments the calls are given
ImageBounds == {<<0, 0, 4, 4>>, <<-2, 1, 3, 2>>, <<5, 5, 9, 8>>}
ClipBounds == {<<0, 0, 8, 8>>, <<2, 1, 3, 3>>, <<4, 4, 4, 9>>}
SrcSizes == {[width |-> 4, height |-> 4], [width |-> 1, height |-> 2]}
SrcOffsets == {<<0, 0>>, <<3, 1>>}

\* the two functions keep nothing between calls: each call is made once, from rest
CallApplyTo(cropRect, imageBounds, ctm) ==
    /\ crop.op = "none"
    /\ crop' = [op |-> "applyTo", cropRect |-> cropRect, imageBounds |-> imageBounds,
                ctm |-> ctm, cropped |-> ApplyTo(cropRect, imageBounds, ctm)]
    /\ UNCHANGED <<caches, unitVars, filterVars, edgeVars, idVars, graph, concVars,
                   inputCall, unflat, cull>>

CallApplyCropRect(cropRect, ctx, src, srcOffset, overridden, surf) ==
    /\ crop.op = "none"
    /\ crop' = [op |-> "applyCropRect", cropRect |-> cropRect, ctx |-> ctx, src |-> src,
                srcOffset |-> srcOffset, overridden |-> overridden,
                out |-> ApplyCropRect(cropRect, ctx, src, srcOffset, overridden, surf)]
    /\ UNCHANGED <<caches, unitVars, filterVars, edgeVars, idVars, graph, concVars,
                   inputCall, unflat, cull>>

CropNext ==
    \/ \E cropRect \in CropRects, imageBounds \in ImageBounds, ctm \in Matrices :
          CallApplyTo(cropRect, imageBounds, ctm)
    \/ \E cropRect \in CropRects, ctm \in Matrices, clipBounds \in ClipBounds,
          src \in SrcSizes, srcOffset \in SrcOffsets, overridden \in BOOLEAN,
          surf \in BOOLEAN :
          CallApplyCropRect(cropRect, [ctm |-> ctm, clipBounds |-> clipBounds], src,
                            srcOffset, overridden, surf)

CropSpec == EdgeInit /\ [][CropNext]_vars

---------------------------------------------------------------------------
(* UnflattenSpec: a node constructed from a validating read buffer *)

\* what a slot of the buffer holds: readBool false, or true followed by a filter that
\* uses the source, one that does not, or one readImageFilter cannot make
SlotKinds == {"null", "usesSrc", "noSrc", "bad"}

\* the filters readImageFilter makes, by slot
ReadIds == <<"R1", "R2", "R3", "R4">>
SlotOf(id) == CHOOSE i \in 1 .. Len(ReadIds) : ReadIds[i] = id

\* a buffer: the count, the slots, whether the rect is valid, whether the version has
\* the old unique id, and how many reads succeed before the buffer runs out
Buffers ==
    {[count |-> n, slots |-> s, rectValid |-> rv, oldVersion |-> old, avail |-> a] :
        n \in -1 .. MaxInputs, s \in SeqsUpTo(SlotKinds, MaxInputs), rv \in BOOLEAN,
        old \in BOOLEAN, a \in 0 .. (2 * MaxInputs + 4)}

CountAcceptedAny(count, expectedCount) == count >= 0

\* unflatten: validate(count >= 0) and validate(expectedCount < 0 || count == expectedCount)
CountAccepted(count, expectedCount) ==
    count >= 0 /\ (expectedCount < 0 \/ count = expectedCount)

\* unflatten's loop from slot i on, used reads made so far: whether the buffer is
\* still valid, fInputs[i ..], and the reads made
RECURSIVE ReadInputs(_, _, _)
ReadInputs(buffer, i, used) ==
    IF i > buffer.count THEN [valid |-> TRUE, inputs |-> <<>>, used |-> used]
    ELSE IF used >= buffer.avail
    THEN [valid |-> FALSE, inputs |-> <<>>, used |-> used]
    ELSE IF buffer.slots[i] = "null"
    THEN LET rest == ReadInputs(buffer, i + 1, used + 1)
         IN [rest EXCEPT !.inputs = <<NullInput>> \o @]
    ELSE IF used + 1 >= buffer.avail \/ buffer.slots[i] = "bad"
    THEN [valid |-> FALSE, inputs |-> <<>>, used |-> used + 1]
    ELSE LET rest == ReadInputs(buffer, i + 1, used + 2)
         IN [rest EXCEPT !.inputs = <<ReadIds[i]>> \o @]

\* SkImageFilter::Common::unflatten(buffer, expectedCount): what it returns and the
\* fInputs it leaves in the Common
Unflatten(buffer, expectedCount) ==
    IF buffer.avail < 1 \/ ~CountAccepted(buffer.count, expectedCount)
    THEN [ok |-> FALSE, fInputs |-> <<>>]
    ELSE LET read == ReadInputs(buffer, 1, 1)
             tail == 2 + (IF buffer.oldVersion THEN 1 ELSE 0)
         IN IF ~read.valid
            THEN [ok |-> FALSE, fInputs |-> read.inputs]
            ELSE IF read.used >= buffer.avail \/ ~buffer.rectValid
            THEN [ok |-> FALSE, fInputs |-> read.inputs]
            ELSE [ok |-> read.used + tail <= buffer.avail, fInputs |-> read.inputs]

\* the filters a Common holds a reference to
Held(fInputs) == {fInputs[i] : i \in 1 .. Len(fInputs)} \ {NullInput}

\* SkImageFilter(inputCount, buffer): the node, and the reference count of every filter
\* readImageFilter made once the constructor has returned (detachInputs moves the
\* Common's references to the node, ~Common drops those it still has)
ConstructedFromBuffer(buffer, expectedCount) ==
    LET common == Unflatten(buffer, expectedCount)
        built  == [id \in Held(common.fInputs) |->
                      [fUsesSrcInput |-> buffer.slots[SlotOf(id)] = "usesSrc"]]
        node   == NewNodeFromBuffer(1, common.ok, common.fInputs, built, TRUE)
    IN [ok |-> common.ok, node |-> node,
        refs |-> [id \in Held(common.fInputs) |-> IF common.ok THEN 1 ELSE 0]]

\* a constructor is run on a buffer, once, from rest
CreateFromBuffer(buffer, expectedCount) ==
    /\ unflat.op = "none"
    /\ Len(buffer.slots) = Max(buffer.count, 0)
    /\ unflat' = [op |-> "construct", buffer |-> buffer, expectedCount |-> expectedCount,
                  made |-> ConstructedFromBuffer(buffer, expectedCount)]
    /\ UNCHANGED <<caches, unitVars, filterVars, edgeVars, idVars, graph, concVars,
                   inputCall, crop, cull>>

UnflattenNext ==
    \E buffer \in Buffers, expectedCount \in -1 .. MaxInputs :
        CreateFromBuffer(buffer, expectedCount)

UnflattenSpec == EdgeInit /\ [][UnflattenNext]_vars

---------------------------------------------------------------------------
(* CullSpec: buildEdges on closed polygons of a small grid, with and without a clip  *)
(* The geometry is exact: every segment is vertical, horizontal or diagonal, so it   *)
(* meets the sides of the clip in grid points.  The path iterator, the line and edge *)
(* clippers, SkPath::isConvex and SkEdge::setLine are modelled from their contracts. *)

MaxVerts == 4   \* most points of a path handed to buildEdges

PathXs == 1 .. 3
PathYs == 0 .. 2
Points == PathXs \X PathYs

Abs(v) == IF v < 0 THEN -v ELSE v
Sgn(v) == IF v < 0 THEN -1 ELSE IF v > 0 THEN 1 ELSE 0

\* the end of the segment that starts at point i of a contour the iterator closes
EndOf(pts, i) == pts[(i % Len(pts)) + 1]

Octilinear(a, b) ==
    a[1] = b[1] \/ a[2] = b[2] \/ Abs(b[1] - a[1]) = Abs(b[2] - a[2])

\* a path: one contour without empty segments; quad says whether its first segment
\* is a quad (whose control point lies on the chord) rather than a line
Polygons ==
    {[pts |-> p, quad |-> q] :
        p \in {s \in UNION {[1 .. n -> Points] : n \in 3 .. MaxVerts} :
                  \A i \in 1 .. Len(s) :
                      s[i] # EndOf(s, i) /\ Octilinear(s[i], EndOf(s, i))},
        q \in BOOLEAN}

\* the shifted clip handed to buildEdges, or none
NoClip == [given |-> FALSE, fLeft |-> 0, fTop |-> 0, fRight |-> 0, fBottom |-> 0]
ClipRect(l, t, r, b) ==
    [given |-> TRUE, fLeft |-> l, fTop |-> t, fRight |-> r, fBottom |-> b]
Clips == {NoClip, ClipRect(0, 0, 2, 2), ClipRect(2, 1, 4, 2)}

\* SkPath::isConvex: the contour never turns both ways
Cross(a, b, c) == (b[1] - a[1]) * (c[2] - b[2]) - (b[2] - a[2]) * (c[1] - b[1])
IsConvex(path) ==
    LET pts == path.pts
        turns == {Cross(pts[i], EndOf(pts, i), EndOf(pts, (i % Len(pts)) + 1)) :
                     i \in 1 .. Len(pts)}
    IN  (\A t \in turns : t >= 0) \/ (\A t \in turns : t <= 0)

CanCullAlways(path) == TRUE

\* buildEdges: const bool canCullToTheRight = !path.isConvex()
CanCullToTheRight(path) == ~IsConvex(path)

\* the grid points of a segment, from a (t = 0) to b (t = Steps)
Steps(a, b) == Max(Abs(b[1] - a[1]), Abs(b[2] - a[2]))
PointAt(a, b, t) == <<a[1] + t * Sgn(b[1] - a[1]), a[2] + t * Sgn(b[2] - a[2])>>

\* the unit steps of a -> b that lie in the rows of the clip
StepsInRows(a, b, clip) ==
    {k \in 0 .. Steps(a, b) - 1 :
        LET y0 == PointAt(a, b, k)[2]
            y1 == PointAt(a, b, k + 1)[2]
        IN  IF y0 = y1 THEN clip.fTop < y0 /\ y0 < clip.fBottom
            ELSE Min(y0, y1) >= clip.fTop /\ Max(y0, y1) <= clip.fBottom}

\* where a unit step lies against the left and right sides of the clip
SideOf(a, b, clip, k) ==
    LET x0 == PointAt(a, b, k)[1]
        x1 == PointAt(a, b, k + 1)[1]
    IN  IF Max(x0, x1) <= clip.fLeft THEN "left"
        ELSE IF Min(x0, x1) >= clip.fRight THEN "right"
        ELSE "in"

\* the sides the part of a -> b within the rows of the clip lies on
SidesOf(a, b, clip) == {SideOf(a, b, clip, k) : k \in StepsInRows(a, b, clip)}

\* the clipper drops what is left of a segment within the rows of the clip when all
\* of it lies right of the clip and it may cull to the right
WhollyCulled(a, b, clip, canCullToTheRight) ==
    canCullToTheRight /\ SidesOf(a, b, clip) = {"right"}

\* SkLineClipper::ClipLine (and SkEdgeClipper::clipLine / clipQuad on a quad that is
\* its chord): the segment chopped to the rows of the clip; its part left of the clip
\* turned into a vertical line on the left side, its part right of the clip into a
\* vertical line on the right side, in the order of the segment
ClipLine(a, b, clip, canCullToTheRight) ==
    LET rows == StepsInRows(a, b, clip)
        StepsOn(side) == {k \in rows : SideOf(a, b, clip, k) = side}
        First(side) == CHOOSE k \in StepsOn(side) : \A j \in StepsOn(side) : k <= j
        Past(side) == 1 + CHOOSE k \in StepsOn(side) : \A j \in StepsOn(side) : k >= j
        Pin(side, p) == IF side = "left" THEN <<clip.fLeft, p[2]>>
                        ELSE IF side = "right" THEN <<clip.fRight, p[2]>>
                        ELSE p
        Piece(side) == [inside |-> side = "in",
                        p0 |-> Pin(side, PointAt(a, b, First(side))),
                        p1 |-> Pin(side, PointAt(a, b, Past(side)))]
        Kept(side) == StepsOn(side) # {}
        order == IF b[1] >= a[1] THEN <<"left", "in", "right">>
                 ELSE <<"right", "in", "left">>
        sides == SelectSeq(order, Kept)
    IN  IF WhollyCulled(a, b, clip, canCullToTheRight) THEN <<>>
        ELSE [i \in 1 .. Len(sides) |-> Piece(sides[i])]

\* what reaches the builder of one segment: the clipper's pieces, or the segment
ClippedPieces(a, b, clip, canCullToTheRight) ==
    IF clip.given THEN ClipLine(a, b, clip, canCullToTheRight)
    ELSE <<[inside |-> TRUE, p0 |-> a, p1 |-> b]>>

\* SkEdge::setLine / SkQuadraticEdge::setQuadratic: no edge for a segment that covers
\* no scan line; otherwise the scan lines top .. bottom - 1, x on the top one, the
\* slope, and the winding +1 downwards, -1 upwards
SetEdge(p0, p1, curveCount) ==
    IF p0[2] = p1[2] THEN Rejected
    ELSE LET top == IF p0[2] < p1[2] THEN p0 ELSE p1
             bot == IF p0[2] < p1[2] THEN p1 ELSE p0
         IN  Made(Edge(top[1], (bot[1] - top[1]) \div (bot[2] - top[2]),
                       top[2], bot[2] - 1,
                       IF p0[2] < p1[2] THEN 1 ELSE -1, curveCount))
SetLine(p0, p1) == SetEdge(p0, p1, 0)
SetQuadratic(p0, p1) == SetEdge(p0, p1, 1)

\* buildPoly's inner loop: the pieces of one clipped line through addPolyLine
RECURSIVE AddPolyPieces(_, _, _)
AddPolyPieces(list, pieces, i) ==
    IF i > Len(pieces) THEN list
    ELSE AddPolyPieces(AddPolyLine(list, SetLine(pieces[i].p0, pieces[i].p1)),
                       pieces, i + 1)

\* build's apply_clipper (and its unclipped switch): the pieces of one segment through
\* addLine, or addQuad for what is left of a quad inside the clip
RECURSIVE AddPieces(_, _, _, _)
AddPieces(list, pieces, i, isQuad) ==
    IF i > Len(pieces) THEN list
    ELSE AddPieces(IF isQuad /\ pieces[i].inside
                   THEN AddQuad(list, SetQuadratic(pieces[i].p0, pieces[i].p1))
                   ELSE AddLine(list, SetLine(pieces[i].p0, pieces[i].p1)),
                   pieces, i + 1, isQuad)

RECURSIVE BuildPolyLeavesOpen(_, _, _, _, _)
BuildPolyLeavesOpen(list, path, iclip, canCullToTheRight, i) ==
    IF i >= Len(path.pts) THEN list
    ELSE BuildPolyLeavesOpen(AddPolyPieces(list,
                                 ClippedPieces(path.pts[i], EndOf(path.pts, i), iclip,
                                               canCullToTheRight), 1),
                             path, iclip, canCullToTheRight, i + 1)

\* SkEdgeBuilder::buildPoly from segment i on: the edge list
RECURSIVE BuildPoly(_, _, _, _, _)
BuildPoly(list, path, iclip, canCullToTheRight, i) ==
    IF i > Len(path.pts) THEN list
    ELSE BuildPoly(AddPolyPieces(list,
                       ClippedPieces(path.pts[i], EndOf(path.pts, i), iclip,
                                     canCullToTheRight), 1),
                   path, iclip, canCullToTheRight, i + 1)

\* SkEdgeBuilder::build from segment i on: fList
RECURSIVE Build(_, _, _, _, _)
Build(list, path, iclip, canCullToTheRight, i) ==
    IF i > Len(path.pts) THEN list
    ELSE Build(AddPieces(list,
                   ClippedPieces(path.pts[i], EndOf(path.pts, i), iclip,
                                 canCullToTheRight), 1, path.quad /\ i = 1),
               path, iclip, canCullToTheRight, i + 1)

\* SkLineClipper::kMaxClippedLineSegments
kMaxClippedLineSegments == 3

\* buildPoly: maxEdgeCount, the size of the edge array and of the pointer array
MaxEdgeCount(path, iclip) ==
    IF iclip.given THEN Len(path.pts) * kMaxClippedLineSegments ELSE Len(path.pts)

\* the pieces of the whole path in the order they reach the builder, each with whether
\* it is what is left of a quad
RECURSIVE PathPieces(_, _, _, _)
PathPieces(path, iclip, canCullToTheRight, i) ==
    IF i > Len(path.pts) THEN <<>>
    ELSE LET pieces == ClippedPieces(path.pts[i], EndOf(path.pts, i), iclip,
                                     canCullToTheRight)
         IN  [k \in 1 .. Len(pieces) |->
                 [p0 |-> pieces[k].p0, p1 |-> pieces[k].p1,
                  isQuad |-> path.quad /\ i = 1 /\ pieces[k].inside]]
             \o PathPieces(path, iclip, canCullToTheRight, i + 1)

\* a builder with its storage: the listed edges, the slot each of them lives in, the
\* cursor edgePtr (as a count from fEdgeList), the next free slot edge, and the Combine
\* the last add came to
FreshBuilder ==
    [list |-> <<>>, ptrs |-> <<>>, edgePtr |-> 0, edge |-> 0, combine |-> "none"]

PolyStepListsRejected(st, made) ==
    LET c == IF made.ok /\ IsVertical(made.edge) /\ st.edgePtr > 0
             THEN CombineVertical(made.edge, Last(st.list))
             ELSE Combined("kNo_Combine", made.edge)
    IN  CASE c.combine = "kTotal_Combine" ->
                 [st EXCEPT !.list = SubSeq(@, 1, Len(@) - 1),
                            !.ptrs = SubSeq(@, 1, Len(@) - 1),
                            !.edgePtr = @ - 1, !.combine = c.combine]
          [] c.combine = "kPartial_Combine" ->
                 [st EXCEPT !.list = [@ EXCEPT ![Len(@)] = c.last],
                            !.combine = c.combine]
          [] c.combine = "kNo_Combine" ->
                 [st EXCEPT !.list = Append(@, made.edge),
                            !.ptrs = Append(@, st.edge),
                            !.edgePtr = @ + 1, !.edge = @ + 1, !.combine = c.combine]

PolyStepReusesSlot(st, made) ==
    IF ~made.ok THEN [st EXCEPT !.combine = "kPartial_Combine"]
    ELSE LET c == IF IsVertical(made.edge) /\ st.edgePtr > 0
                  THEN CombineVertical(made.edge, Last(st.list))
                  ELSE Combined("kNo_Combine", made.edge)
         IN  CASE c.combine = "kTotal_Combine" ->
                      [st EXCEPT !.list = SubSeq(@, 1, Len(@) - 1),
                                 !.ptrs = SubSeq(@, 1, Len(@) - 1),
                                 !.edgePtr = @ - 1, !.combine = c.combine]
               [] c.combine = "kPartial_Combine" ->
                      [st EXCEPT !.list = [@ EXCEPT ![Len(@)] = c.last],
                                 !.combine = c.combine]
               [] c.combine = "kNo_Combine" ->
                      [st EXCEPT !.list = Append(@, made.edge),
                                 !.ptrs = Append(@, st.edge),
                                 !.edgePtr = @ + 1, !.combine = c.combine]

\* buildPoly's switch on addPolyLine(lines + i, edge, edgePtr): setLine writes the slot
\* edge; a rejected line comes back as kPartial_Combine and nothing moves; kTotal_Combine
\* steps edgePtr back; kNo_Combine lists the slot and steps edge and edgePtr on
PolyStep(st, made) ==
    IF ~made.ok THEN [st EXCEPT !.combine = "kPartial_Combine"]
    ELSE LET c == IF IsVertical(made.edge) /\ st.edgePtr > 0
                  THEN CombineVertical(made.edge, Last(st.list))
                  ELSE Combined("kNo_Combine", made.edge)
         IN  CASE c.combine = "kTotal_Combine" ->
                      [st EXCEPT !.list = SubSeq(@, 1, Len(@) - 1),
                                 !.ptrs = SubSeq(@, 1, Len(@) - 1),
                                 !.edgePtr = @ - 1, !.combine = c.combine]
               [] c.combine = "kPartial_Combine" ->
                      [st EXCEPT !.list = [@ EXCEPT ![Len(@)] = c.last],
                                 !.combine = c.combine]
               [] c.combine = "kNo_Combine" ->
                      [st EXCEPT !.list = Append(@, made.edge),
                                 !.ptrs = Append(@, st.edge),
                                 !.edgePtr = @ + 1, !.edge = @ + 1, !.combine = c.combine]

\* build's addLine / addQuad on a piece: fAlloc.make takes a new edge whatever becomes
\* of it, and fList is pushed, popped or left alone
GeneralStep(st, made, isQuad) ==
    LET list == IF isQuad THEN AddQuad(st.list, made) ELSE AddLine(st.list, made)
    IN  [list |-> list,
         ptrs |-> IF Len(list) > Len(st.list) THEN Append(st.ptrs, st.edge)
                  ELSE SubSeq(st.ptrs, 1, Len(list)),
         edgePtr |-> Len(list),
         edge |-> st.edge + 1,
         combine |-> IF ~made.ok THEN "none"
                     ELSE IF Len(list) > Len(st.list) THEN "kNo_Combine"
                     ELSE IF Len(list) < Len(st.list) THEN "kTotal_Combine"
                     ELSE "kPartial_Combine"]

\* the run of buildPoly (poly) or build over the pieces from piece i on: for every
\* piece whether its edge was accepted, and the builder after it
RECURSIVE RunPieces(_, _, _, _)
RunPieces(st, pieces, i, poly) ==
    IF i > Len(pieces) THEN <<>>
    ELSE LET made == IF pieces[i].isQuad THEN SetQuadratic(pieces[i].p0, pieces[i].p1)
                     ELSE SetLine(pieces[i].p0, pieces[i].p1)
             after == IF poly THEN PolyStep(st, made)
                      ELSE GeneralStep(st, made, pieces[i].isQuad)
         IN  <<[ok |-> made.ok, after |-> after]>>
             \o RunPieces(after, pieces, i + 1, poly)

\* the segments that would have made an edge and were dropped right of the clip
CulledSegments(path, iclip, canCullToTheRight) ==
    {i \in 1 .. Len(path.pts) :
        /\ iclip.given
        /\ path.pts[i][2] # EndOf(path.pts, i)[2]
        /\ WhollyCulled(path.pts[i], EndOf(path.pts, i), iclip, canCullToTheRight)}

\* SkEdgeBuilder::buildEdges(path, shiftedClip) on a basic builder (chopCubics() is
\* true): what it decides, the list it builds and the count it returns
BuildEdgesResult(path, shiftedClip) ==
    LET canCullToTheRight == CanCullToTheRight(path)
        pieces == PathPieces(path, shiftedClip, canCullToTheRight, 1)
        list == IF ~path.quad
                THEN BuildPoly(<<>>, path, shiftedClip, canCullToTheRight, 1)
                ELSE Build(<<>>, path, shiftedClip, canCullToTheRight, 1)
    IN  [op |-> "buildEdges", path |-> path, shiftedClip |-> shiftedClip,
         convex |-> IsConvex(path), canCullToTheRight |-> canCullToTheRight,
         chopCubics |-> TRUE, list |-> list, count |-> Len(list),
         poly |-> ~path.quad,
         maxEdgeCount |-> MaxEdgeCount(path, shiftedClip),
         pieces |-> Len(pieces),
         trace |-> RunPieces(FreshBuilder, pieces, 1, ~path.quad),
         culled |-> Cardinality(CulledSegments(path, shiftedClip, canCullToTheRight))]

\* one buildEdges call on a fresh builder
CallBuildEdges(path, shiftedClip) ==
    /\ cull.op = "none"
    /\ cull' = BuildEdgesResult(path, shiftedClip)
    /\ UNCHANGED <<inputCall, crop, unflat, concVars, idVars, graph, caches, unitVars,
                   filterVars, edgeVars>>

CullNext ==
    /\ cull.op = "none"
    /\ \E path \in Polygons, shiftedClip \in Clips : CallBuildEdges(path, shiftedClip)

CullSpec == EdgeInit /\ [][CullNext]_vars

---------------------------------------------------------------------------
(* TwinSpec: buildPoly and build run on the same path of lines *)

\* a piece of a line as it reaches the builder: whether its coordinates are finite and
\* what setLine makes of it
LinePieces == {[finite |-> f, made |-> m] : f \in BOOLEAN, m \in MadeOf(Segment("line", TRUE))}

\* a line of the path with the pieces the clipper makes of it: with a clip none, one
\* or two; without a clip the line itself
ClippedLines(iclip) ==
    IF iclip THEN SeqsUpTo(LinePieces, 2) ELSE {<<p>> : p \in LinePieces}

\* a path of line verbs only, at least one
LinePaths(iclip) == SeqsUpTo(ClippedLines(iclip), MaxSegs) \ {<<>>}

\* buildPoly's loops over the lines and over lineCount: every piece goes to addPolyLine
RECURSIVE PolyLines(_, _, _, _)
PolyLines(list, path, s, i) ==
    IF s > Len(path) THEN list
    ELSE IF i > Len(path[s]) THEN PolyLines(list, path, s + 1, 1)
    ELSE PolyLines(AddPolyLine(list, path[s][i].made), path, s, i + 1)

\* buildPoly on the path: the edge list and the count edgePtr - fEdgeList
BuildPolyOn(path, iclip) ==
    LET list == PolyLines(<<>>, path, 1, 1)
    IN  [list |-> list, count |-> Len(list)]

\* build's loop over the lines: with a clip apply_clipper drains the pieces into
\* addLine and returns at the first one that is not finite; without a clip the line
\* goes to addLine
RECURSIVE GeneralLines(_, _, _, _, _)
GeneralLines(b, path, iclip, s, i) ==
    IF s > Len(path) THEN b
    ELSE IF i > Len(path[s]) THEN GeneralLines(b, path, iclip, s + 1, 1)
    ELSE IF iclip /\ ~path[s][i].finite
    THEN GeneralLines([b EXCEPT !.is_finite = FALSE], path, iclip, s + 1, 1)
    ELSE GeneralLines([b EXCEPT !.list = AddLine(@, path[s][i].made)],
                      path, iclip, s, i + 1)

\* build on the path: fList and the count is_finite ? fList.count() : 0
BuildOn(path, iclip) ==
    LET b == GeneralLines([list |-> <<>>, is_finite |-> TRUE], path, iclip, 1, 1)
    IN  [list |-> b.list, count |-> IF b.is_finite THEN Len(b.list) ELSE 0]

\* the same path and clip handed to buildPoly and to build, each on a fresh builder
CallBothBuilds(path, iclip) ==
    /\ cull' = [op |-> "both", path |-> path, iclip |-> iclip,
                poly |-> BuildPolyOn(path, iclip), general |-> BuildOn(path, iclip)]
    /\ UNCHANGED <<inputCall, crop, unflat, concVars, idVars, graph, caches, unitVars,
                   filterVars, edgeVars>>

TwinNext ==
    /\ cull.op = "none"
    /\ \E iclip \in BOOLEAN : \E path \in LinePaths(iclip) : CallBothBuilds(path, iclip)

TwinSpec == EdgeInit /\ [][TwinNext]_vars

---------------------------------------------------------------------------
(* AnalyticSpec: line edges added one by one to an analytic builder *)

\* SK_Fixed1: one pixel in the 16.16 fixed point of an analytic edge's Ys
SK_Fixed1 == 65536

\* SkAnalyticEdge as the builder sees it
AnalyticEdge(x, dx, upperY, lowerY, winding, curveCount) ==
    [fX |-> x, fDX |-> dx, fUpperY |-> upperY, fLowerY |-> lowerY, fY |-> upperY,
     fWinding |-> winding, fCurveCount |-> curveCount]

\* the lambda approximately_equal of SkAnalyticEdgeBuilder::combineVertical
ApproximatelyEqual(a, b) == Abs(a - b) < 256

AnalyticCombineVerticalHalfSwap(edge, last) ==
    IF last.fCurveCount # 0 \/ last.fDX # 0 \/ edge.fX # last.fX
    THEN Combined("kNo_Combine", last)
    ELSE IF edge.fWinding = last.fWinding
    THEN IF edge.fLowerY = last.fUpperY
         THEN Combined("kPartial_Combine",
                       [last EXCEPT !.fUpperY = edge.fUpperY, !.fY = edge.fUpperY])
         ELSE IF ApproximatelyEqual(edge.fUpperY, last.fLowerY)
         THEN Combined("kPartial_Combine", [last EXCEPT !.fLowerY = edge.fLowerY])
         ELSE Combined("kNo_Combine", last)
    ELSE IF ApproximatelyEqual(edge.fUpperY, last.fUpperY)
    THEN IF ApproximatelyEqual(edge.fLowerY, last.fLowerY)
         THEN Combined("kTotal_Combine", last)
         ELSE IF edge.fLowerY < last.fLowerY
         THEN Combined("kPartial_Combine",
                       [last EXCEPT !.fUpperY = edge.fLowerY, !.fY = edge.fLowerY])
         ELSE Combined("kPartial_Combine",
                       [last EXCEPT !.fUpperY = last.fLowerY, !.fY = last.fLowerY,
                                    !.fWinding = edge.fWinding])
    ELSE IF ApproximatelyEqual(edge.fLowerY, last.fLowerY)
    THEN IF edge.fUpperY > last.fUpperY
         THEN Combined("kPartial_Combine", [last EXCEPT !.fLowerY = edge.fUpperY])
         ELSE Combined("kPartial_Combine",
                       [last EXCEPT !.fLowerY = last.fUpperY,
                                    !.fWinding = edge.fWinding])
    ELSE Combined("kNo_Combine", last)

\* SkAnalyticEdgeBuilder::combineVertical(edge, last): the Combine it returns and last
\* as it leaves it
AnalyticCombineVertical(edge, last) ==
    IF last.fCurveCount # 0 \/ last.fDX # 0 \/ edge.fX # last.fX
    THEN Combined("kNo_Combine", last)
    ELSE IF edge.fWinding = last.fWinding
    THEN IF edge.fLowerY = last.fUpperY
         THEN Combined("kPartial_Combine",
                       [last EXCEPT !.fUpperY = edge.fUpperY, !.fY = edge.fUpperY])
         ELSE IF ApproximatelyEqual(edge.fUpperY, last.fLowerY)
         THEN Combined("kPartial_Combine", [last EXCEPT !.fLowerY = edge.fLowerY])
         ELSE Combined("kNo_Combine", last)
    ELSE IF ApproximatelyEqual(edge.fUpperY, last.fUpperY)
    THEN IF ApproximatelyEqual(edge.fLowerY, last.fLowerY)
         THEN Combined("kTotal_Combine", last)
         ELSE IF edge.fLowerY < last.fLowerY
         THEN Combined("kPartial_Combine",
                       [last EXCEPT !.fUpperY = edge.fLowerY, !.fY = edge.fLowerY])
         ELSE Combined("kPartial_Combine",
                       [last EXCEPT !.fUpperY = last.fLowerY, !.fY = last.fLowerY,
                                    !.fLowerY = edge.fLowerY,
                                    !.fWinding = edge.fWinding])
    ELSE IF ApproximatelyEqual(edge.fLowerY, last.fLowerY)
    THEN IF edge.fUpperY > last.fUpperY
         THEN Combined("kPartial_Combine", [last EXCEPT !.fLowerY = edge.fUpperY])
         ELSE Combined("kPartial_Combine",
                       [last EXCEPT !.fLowerY = last.fUpperY,
                                    !.fUpperY = edge.fUpperY, !.fY = edge.fUpperY,
                                    !.fWinding = edge.fWinding])
    ELSE Combined("kNo_Combine", last)

\* SkAnalyticEdgeBuilder::addLine(pts), given what setLine makes of pts
AnalyticAddLine(list, made) ==
    IF made.ok
    THEN LET edge == made.edge
         IN IF IsVertical(edge) /\ Len(list) > 0
            THEN ApplyCombine(list, edge, AnalyticCombineVertical(edge, Last(list)))
            ELSE Append(list, edge)
    ELSE list

\* the Ys SkAnalyticEdge::setLine gives an edge: snapped to quarter pixels
SnappedYs == {k * (SK_Fixed1 \div 4) : k \in 0 .. 3}

\* the edges setLine makes in AnalyticSpec: vertical edges of column 0 over every
\* range of snapped Ys with either winding, one vertical edge of column 1 and one
\* slanted edge
AnalyticLineEdges ==
    {e \in {AnalyticEdge(0, 0, r[1], r[2], w, 0) :
                r \in SnappedYs \X SnappedYs, w \in {1, -1}} :
        e.fUpperY < e.fLowerY}
        \cup {AnalyticEdge(SK_Fixed1, 0, 0, SK_Fixed1 \div 2, 1, 0),
              AnalyticEdge(0, SK_Fixed1, 0, SK_Fixed1 \div 2, 1, 0)}

\* addLine(pts) on the analytic builder
CallAnalyticAddLine(made) ==
    /\ Len(unfused) < MaxEdges
    /\ fList' = AnalyticAddLine(fList, made)
    /\ unfused' = IF made.ok THEN Append(unfused, made.edge) ELSE unfused
    /\ UNCHANGED <<callVars, concVars, idVars, graph, caches, unitVars, filterVars, build>>

AnalyticNext ==
    \E made \in {Made(e) : e \in AnalyticLineEdges} \cup {Rejected} : CallAnalyticAddLine(made)

AnalyticSpec == EdgeInit /\ [][AnalyticNext]_vars

---------------------------------------------------------------------------
(* Properties of the cache under test (Spec) *)

Cut == caches[UnderTest]

\* C1: after any set completes, either currentBytes <= maxBytes or the entry just
\* inserted is the only entry in the cache.
BudgetAfterSet ==
    lastOp.op = "set" =>
        \/ Cut.fCurrentBytes <= Cut.fMaxBytes
        \/ (LRUKeys(Cut) = <<lastOp.key>> /\ PresentKeys(Cut) = {lastOp.key})

\* a set that had to evict to get back under a budget it could meet
BudgetAfterSetWitness ==
    /\ lastOp.op = "set"
    /\ Cut.removed # <<>>
    /\ lastOp.key \notin Range(Cut.removed)
    /\ Len(Cut.fLRU) >= 2
    /\ Cut.fCurrentBytes = Cut.fMaxBytes

\* C2: currentBytes is the sum of the sizes of the entries in the cache, and the
\* hash table and the LRU list hold the same entries, one per key.
BytesAreLiveBytes ==
    /\ Cut.fCurrentBytes = LiveBytes(Cut)
    /\ Range(Cut.fLRU) = Cut.fLookup
    /\ NoDup(LRUKeys(Cut))
    /\ Cardinality(Cut.fLookup) = Len(Cut.fLRU)

\* a purgeByKeys that removed an image entry and left others behind
BytesAreLiveBytesWitness ==
    /\ lastOp.op = "purgeByKeys"
    /\ Len(Cut.removed) = 2
    /\ Cut.fCurrentBytes = 100
    /\ Len(Cut.fLRU) = 2

\* the keys a set evicted for capacity, in order: what it removed other than the
\* entry it replaced
CapacityEvicted(c, key) == SeqRemove(c.removed, key)

LruScenarioDone == script = [name |-> "lru", step |-> 5]

\* C3: capacity eviction removes entries least recently used first, a get hit being
\* a use: the LRU list is the order of use, every set evicts a prefix of that order
\* (the key it sets aside), purge empties the cache in that order, and the scenario
\* maxBytes=300, set K1,K2,K3 of 100B, get(K1), set K4 evicts K2 and keeps K1,K3,K4.
LruEvictionOrder ==
    /\ [](LRUKeys(Cut) = Reverse(useOrder[UnderTest]))
    /\ [][lastOp'.op = "set" =>
              IsPrefix(CapacityEvicted(Cut', lastOp'.key),
                       SeqRemove(useOrder[UnderTest], lastOp'.key))]_vars
    /\ [][lastOp'.op = "purge" => IsPrefix(Cut'.removed, useOrder[UnderTest])]_vars
    /\ [](LruScenarioDone =>
              /\ Cut.removed = <<K(2)>>
              /\ PresentKeys(Cut) = {K(1), K(3), K(4)})

LruEvictionOrderWitness ==
    /\ LruScenarioDone
    /\ lastOp.op = "set" /\ lastOp.key = K(4)
    /\ K(2) \notin PresentKeys(Cut)
    /\ LRUKeys(Cut) = <<K(4), K(1), K(3)>>

Oversized(v) == ValueSize(v) > Cut.fMaxBytes

\* C4: set never evicts the entry it just inserted; an entry larger than maxBytes
\* stays, alone, with currentBytes its size; and the next set of another key evicts
\* it before anything else.
SetKeepsInserted ==
    /\ [](lastOp.op = "set" =>
              /\ lastOp.key \in PresentKeys(Cut)
              /\ Head(Cut.fLRU).fKey = lastOp.key
              /\ Oversized(Head(Cut.fLRU)) =>
                     (Len(Cut.fLRU) = 1 /\ Cut.fCurrentBytes = ValueSize(Head(Cut.fLRU))))
    /\ [][\A v \in Cut.fLookup :
              (Oversized(v) /\ lastOp'.op = "set" /\ lastOp'.key # v.fKey) =>
                  /\ Cut'.removed # <<>>
                  /\ Head(Cut'.removed) = v.fKey
                  /\ v.fKey \notin PresentKeys(Cut')]_vars
    /\ [](script = [name |-> "oversize", step |-> 1] =>
              (PresentKeys(Cut) = {K(1)} /\ Cut.fCurrentBytes = 500))

SetKeepsInsertedWitness ==
    /\ script = [name |-> "oversize", step |-> 2]
    /\ Cut.fMaxBytes = 100
    /\ Head(Cut.removed) = K(1)
    /\ PresentKeys(Cut) = {K(2)}

\* getSize() of what a set was given
ResultSize(r) == IF r.image # NullImage THEN r.image.size ELSE r.bitmap.size

\* C5: set(k, v1); set(k, v2); get(k) returns v2 (image and offset); after the second
\* set the cache holds one entry for k, and currentBytes counts size(v2), not size(v1).
ReplaceSemantics ==
    /\ replaced.step \in {2, 3} =>
           /\ Cardinality(EntriesFor(Cut, replaced.key)) = 1
           /\ GetResult(Cut, replaced.key) = replaced.second
           /\ Cut.fCurrentBytes =
                  ResultSize(replaced.second)
                  + SeqSum([i \in 1..(Len(Cut.fLRU) - 1) |->
                               ValueSize(SeqRemove(Cut.fLRU, Find(Cut, replaced.key))[i])])
    /\ replaced.step = 3 =>
           /\ lastOp.op = "get" /\ lastOp.key = replaced.key
           /\ lastOp.result = replaced.second

ReplaceSemanticsWitness ==
    /\ replaced.step = 3
    /\ lastOp.result.found
    /\ ResultSize(replaced.first) = 100
    /\ ResultSize(replaced.second) = 500
    /\ replaced.first.offset # replaced.second.offset
    /\ Cut.fCurrentBytes = 500

\* C12 as stated: after purge() returns the cache holds no entries and currentBytes
\* is 0, whatever it held before, entries of size 0 included.
PurgeEmptiesCache ==
    lastOp.op = "purge" =>
        (Cut.fLookup = {} /\ Cut.fLRU = <<>> /\ Cut.fCurrentBytes = 0)

\* the entries of lru whose key is not in listed, in the order of lru
RECURSIVE Survivors(_, _)
Survivors(lru, listed) ==
    IF lru = <<>> THEN <<>>
    ELSE IF Head(lru).fKey \in listed THEN Survivors(Tail(lru), listed)
    ELSE <<Head(lru)>> \o Survivors(Tail(lru), listed)

\* the bytes of the entries of lru whose key is in listed
RECURSIVE ListedBytes(_, _)
ListedBytes(lru, listed) ==
    IF lru = <<>> THEN 0
    ELSE (IF Head(lru).fKey \in listed THEN ValueSize(Head(lru)) ELSE 0)
         + ListedBytes(Tail(lru), listed)

\* C13: purgeByKeys(keys) removes every listed key that is present, ignores the listed
\* keys that are absent, leaves every unlisted entry, its value and the relative LRU
\* order of the survivors unchanged, and currentBytes drops by exactly the sizes of
\* the removed entries.
PurgeByKeysFrame ==
    [][lastOp'.op = "purgeByKeys" =>
          LET listed == Range(lastOp'.keys)
          IN /\ PresentKeys(Cut') = PresentKeys(Cut) \ listed
             /\ Range(Cut'.removed) = PresentKeys(Cut) \cap listed
             /\ Cut'.fLookup = {v \in Cut.fLookup : v.fKey \notin listed}
             /\ Cut'.fLRU = Survivors(Cut.fLRU, listed)
             /\ Cut'.fCurrentBytes = Cut.fCurrentBytes - ListedBytes(Cut.fLRU, listed)
             /\ Cut'.fMaxBytes = Cut.fMaxBytes]_vars

\* purgeByKeys(<<absent key, present key>>) removed the present one and left two
\* entries behind
PurgeByKeysFrameWitness ==
    /\ lastOp.op = "purgeByKeys"
    /\ Len(lastOp.keys) = 2
    /\ Cut.removed = <<lastOp.keys[2]>>
    /\ lastOp.keys[1] # lastOp.keys[2]
    /\ Len(Cut.fLRU) = 2
    /\ Cut.fCurrentBytes > 0

\* C14 as stated: once a set has completed its eviction loop, currentBytes is at most
\* maxBytes.
WithinMaxAfterSet ==
    lastOp.op = "set" => Cut.fCurrentBytes <= Cut.fMaxBytes

\* C14: currentBytes exceeds maxBytes only while the cache holds a single entry that
\* is larger than maxBytes by itself; after a set that entry is the one just inserted.
OverMaxOnlyAlone ==
    Cut.fCurrentBytes > Cut.fMaxBytes =>
        /\ Len(Cut.fLRU) = 1
        /\ ValueSize(Head(Cut.fLRU)) > Cut.fMaxBytes
        /\ Cut.fCurrentBytes = ValueSize(Head(Cut.fLRU))
        /\ lastOp.op = "set" => Head(Cut.fLRU).fKey = lastOp.key

\* a set of an entry larger than maxBytes evicted what the cache held and left the new
\* entry alone, over the budget
OverMaxOnlyAloneWitness ==
    /\ lastOp.op = "set"
    /\ Cut.fCurrentBytes > Cut.fMaxBytes
    /\ Cut.fMaxBytes > 0
    /\ Len(Cut.removed) = 2
    /\ lastOp.key \notin Range(Cut.removed)

---------------------------------------------------------------------------
(* Properties of filter nodes (FilterSpec) *)

\* the last two actions were filterImage calls with the same fingerprint (node, ctm,
\* clipBounds, srcId, srcSubset) on the same non-null cache
CallPair == calls.first # NoCall /\ calls.first.key = calls.last.key

\* C6 as stated: with a non-null cache, filterImage called twice with the same
\* fingerprint invokes onFilterImage exactly once: after the first call has computed,
\* the second does not.
ComputedExactlyOnce ==
    (CallPair /\ calls.first.computed) => ~calls.last.computed

\* C6: with a non-null cache, of two consecutive filterImage calls with the same
\* fingerprint the second invokes onFilterImage exactly when the first returned null:
\* a non-null result is computed once and then served from the cache, a null result is
\* not stored and is computed again.
MemoizedUnlessNull ==
    CallPair => (calls.last.computed <=> calls.first.null)

MemoizedUnlessNullWitness ==
    /\ CallPair
    /\ calls.first.computed
    /\ ~calls.first.null
    /\ ~calls.last.computed
    /\ ~calls.last.null

\* C9 as stated: destroying a node removes, from each cache its results were stored
\* in, exactly the keys the node recorded, and no other entry.
DestroyEvictsRecordedKeys ==
    [][\A n \in NodeIds :
          (nodes[n].alive /\ ~nodes'[n].alive) =>
              \A c \in CacheIds :
                  PresentKeys(caches'[c]) =
                      PresentKeys(caches[c]) \ Range(nodes[n].fCacheKeys)]_vars

\* the keys in any cache that carry the node's unique id: only the node inserts them
KeysOf(n) ==
    {k \in UNION {PresentKeys(caches[c]) : c \in CacheIds} :
        k.fUniqueID = nodes[n].fUniqueID}

\* C10 as stated: while a node lives, fCacheKeys is the set of keys it has inserted
\* that are still in a cache.
RecordedKeysArePresentKeys ==
    \A n \in NodeIds : nodes[n].alive => Range(nodes[n].fCacheKeys) = KeysOf(n)

\* the last action was a filterImage call of node n that returned null
ReturnedNull(n) == calls.last.node = n /\ calls.last.null

\* the entries of cache c that hold an image
ImageEntries(c) == {v \in c.fLookup : v.fImage # NullImage}

KeyIgnoresUnusedSource ==
    /\ calls.last.node \in NodeIds =>
           LET node == nodes[calls.last.node]
               key  == calls.last.key
           IN /\ key.fUniqueID = node.fUniqueID
              /\ key.fSrcGenID = (IF node.fUsesSrcInput THEN calls.last.src.uid ELSE 0)
              /\ key.fSrcSubset =
                     (IF node.fUsesSrcInput THEN calls.last.src.subset ELSE EmptySubset)
    /\ (calls.first.node \in NodeIds /\ calls.first.src # calls.last.src) =>
           IF nodes[calls.last.node].fUsesSrcInput
           THEN calls.first.key # calls.last.key
           ELSE /\ calls.first.key = calls.last.key
                /\ ~calls.first.null =>
                       (~calls.last.computed /\ calls.last.image = calls.first.image)

\* N2, which has no inputs, computed a result for one source and was served it from
\* the cache for the other
KeyIgnoresUnusedSourceWitness ==
    /\ calls.first.node = "N2"
    /\ calls.first.src # calls.last.src
    /\ calls.first.computed
    /\ ~calls.last.computed
    /\ calls.last.image = calls.first.image
    /\ calls.last.image # NullImage

---------------------------------------------------------------------------
(* Properties of the edge builder (EdgeSpec, BuildSpec) *)

\* C7: for any sequence of line edges added to a basic builder, the winding number at
\* every integer point computed from the fused list equals the one computed from the
\* same edges appended without fusion.
FusionPreservesWinding ==
    \A x \in Columns, y \in ScanLines :
        WindingAt(fList, x, y) = WindingAt(unfused, x, y)

\* three edges were added, the second cancelled the head of the first and took over
\* its winding, the third was fused too
FusionPreservesWindingWitness ==
    /\ Len(unfused) = 3
    /\ Len(fList) = 1
    /\ fList[1].fWinding # unfused[1].fWinding
    /\ \E y \in ScanLines : WindingAt(fList, 0, y) # 0

\* the edge the step has added, when it has added one
Added == Last(unfused')
AddsOnTopOfVertical ==
    /\ Len(unfused') = Len(unfused) + 1
    /\ fList # <<>>
    /\ IsVertical(Added)
    /\ IsVertical(Last(fList))
    /\ Added.fX = Last(fList).fX

\* C26: adding to a basic builder a vertical line edge whose x and Y range equal those
\* of the previous (top) vertical line edge, with the opposite winding, removes the
\* previous edge and discards the new one (TotalCombine): the list is one shorter than
\* before the add.
TotalCombineShortens ==
    [][(/\ AddsOnTopOfVertical
        /\ Added.fFirstY = Last(fList).fFirstY
        /\ Added.fLastY = Last(fList).fLastY
        /\ Added.fWinding # Last(fList).fWinding)
       => fList' = SubSeq(fList, 1, Len(fList) - 1)]_vars

\* +1 over scan lines 1..2 of column 0, then -1 over the same: nothing is left
TotalCombineShortensWitness ==
    /\ unfused = <<Edge(0, 0, 1, 2, 1, 0), Edge(0, 0, 1, 2, -1, 0)>>
    /\ fList = <<>>

\* C27: adding a vertical line edge with the x and the winding of the previous
\* vertical line edge and a Y range exactly adjacent to it (new.lastY + 1 = prev.firstY
\* or new.firstY = prev.lastY + 1) extends the previous edge over both ranges and does
\* not grow the list (PartialCombine); with the same winding and a range that is not
\* exactly adjacent, the new edge is appended unfused.
AdjacentSameWindingExtends ==
    [][(AddsOnTopOfVertical /\ Added.fWinding = Last(fList).fWinding)
       => IF \/ Added.fLastY + 1 = Last(fList).fFirstY
             \/ Added.fFirstY = Last(fList).fLastY + 1
          THEN fList' = [fList EXCEPT ![Len(fList)] =
                            [@ EXCEPT !.fFirstY = Min(@, Added.fFirstY),
                                      !.fLastY = Max(@, Added.fLastY)]]
          ELSE fList' = Append(fList, Added)]_vars

\* +1 on scan line 0 of column 1, then +1 on scan lines 1..2 below it: one edge 0..2
AdjacentSameWindingExtendsWitness ==
    /\ unfused = <<Edge(1, 0, 0, 0, 1, 0), Edge(1, 0, 1, 2, 1, 0)>>
    /\ fList = <<Edge(1, 0, 0, 2, 1, 0)>>

\* C28: in a basic builder, after any sequence of addLine / addQuad / addCubic calls,
\* every PartialCombine mutation of the previous edge included, every edge of the list
\* has firstY <= lastY.
EdgesStayOrdered ==
    \A i \in 1 .. Len(fList) : fList[i].fFirstY <= fList[i].fLastY

\* after a quad, a longer edge of the opposite winding took over a shorter one: what
\* is left is the part below it, with the new winding
EdgesStayOrderedWitness ==
    /\ unfused = <<Edge(0, 0, 0, 1, 1, 1), Edge(0, 0, 0, 0, 1, 0), Edge(0, 0, 0, 2, -1, 0)>>
    /\ fList = <<Edge(0, 0, 0, 1, 1, 1), Edge(0, 0, 1, 2, -1, 0)>>

\* C8 as stated: if a segment has an infinite or NaN coordinate after clipping,
\* buildEdges returns 0, whichever path (buildPoly or build, clipped or not) handles it.
NonFiniteReturnsZero ==
    (build.pc = "done" /\ build.nonFinite) => build.count = 0

---------------------------------------------------------------------------
(* Properties of next_image_filter_unique_id (IdSpec) and of node graphs (GraphSpec) *)

\* C17 as stated: no two nodes created in one process ever receive the same uniqueId,
\* however many were constructed before (past the wrap of the 32-bit counter included)
\* and however the constructors interleave.
IdsNeverRepeat ==
    /\ NoDup(issued.ids)
    /\ \A i \in 1..Len(issued.ids) : ~IssuedBefore(issued.ids[i], issued.start)

\* C18: next_image_filter_unique_id never returns 0, whatever the counter holds (the
\* step from -1 included) and however its callers interleave.
NeverReturnsZero ==
    /\ \A t \in Callers : callers[t].pc = "return" => callers[t].id # 0
    /\ \A i \in 1..Len(issued.ids) : issued.ids[i] # 0

\* a caller drew 0, went round the loop and is returning the next id, while the other
\* caller is in the loop too
NeverReturnsZeroWitness ==
    \E t \in Callers :
        /\ callers[t].pc = "return"
        /\ callers[t].loops = 1
        /\ \E u \in Callers \ {t} : callers[u].pc # "idle"

\* a null slot can be reached from node i through its inputs
RECURSIVE NullReachable(_)
NullReachable(i) ==
    \E s \in 1..Len(graph[i].fInputs) :
        \/ graph[i].fInputs[s] = NullInput
        \/ NullReachable(CHOOSE j \in 1..Len(graph) : GraphIds[j] = graph[i].fInputs[s])

\* C20: for every node built by either constructor, usesSrcInput is true iff some input
\* slot is null or some input's own usesSrcInput is true; so it is true exactly when a
\* null slot is reachable through the node's inputs, and false for a node without
\* inputs.
UsesSrcIffNullReachable ==
    \A i \in 1..Len(graph) :
        /\ graph[i].fUsesSrcInput <=>
               \E s \in 1..Len(graph[i].fInputs) :
                   \/ graph[i].fInputs[s] = NullInput
                   \/ Built[graph[i].fInputs[s]].fUsesSrcInput
        /\ graph[i].fUsesSrcInput <=> NullReachable(i)
        /\ graph[i].fInputs = <<>> => ~graph[i].fUsesSrcInput

\* the third node has no null slot of its own and reaches one two levels down
UsesSrcIffNullReachableWitness ==
    /\ Len(graph) = 3
    /\ graph[1].fInputs = <<NullInput>>
    /\ graph[2].fInputs = <<"G1">>
    /\ graph[3].fInputs = <<"G2", "G2">>
    /\ graph[3].fUsesSrcInput

---------------------------------------------------------------------------
(* Properties of concurrent evaluation (ConcSpec) *)

\* C15 as stated: the cache is thread-safe: however a filterImage cache hit interleaves
\* with set, purge and purgeByKeys on other threads, the image that get returned is
\* still owned by someone when the evaluator takes its reference.
TakenRefIsOwned ==
    \A t \in Threads :
        /\ threads[t].pc = "ref" => heap[threads[t].result.uid] > 0
        /\ threads[t].pc # "freed"

\* C16: no thread ever holds a node's key-list mutex and the cache mutex at once, and
\* no interleaving of evaluations and node destructions deadlocks: a thread that waits
\* for a mutex holds none, and the mutex it waits for is free or held by a thread that
\* is not waiting.
LocksNeverNested ==
    /\ \A t \in Threads : ~(fMutex["cache"] = t /\ \E n \in NodeIds : fMutex[n] = t)
    /\ \A t \in Threads : Waiting(t) =>
          /\ \A m \in Mutexes : fMutex[m] # t
          /\ \/ fMutex[Wanted(t)] = "free"
             \/ ~Waiting(fMutex[Wanted(t)])

\* one thread is in push_back under a node's mutex while the other, destroying the
\* other node, is in purgeByKeys under the cache mutex
LocksNeverNestedWitness ==
    \E t, u \in Threads :
        /\ threads[t].pc = "push" /\ fMutex[threads[t].node] = t
        /\ threads[u].pc = "destroy" /\ fMutex["cache"] = u
        /\ nodes[threads[u].node].fCacheKeys # <<>>

---------------------------------------------------------------------------
(* Properties of filterInput (InputSpec) *)

\* C21 as stated: filterInput(i, src, ctx) returns src itself when input i is null, and
\* otherwise returns the result of apply(input[i], src, mapContext(ctx)), where
\* mapContext keeps ctx's ctm and cache handle; a null result is returned as null.
InputResultReturned ==
    inputCall.op = "filterInput" =>
        IF inputCall.input = NullInput
        THEN inputCall.returned = SrcImage(inputCall.src)
        ELSE /\ inputCall.inputCtx.ctm = inputCall.ctx.ctm
             /\ inputCall.inputCtx.cache = inputCall.ctx.cache
             /\ inputCall.returned = inputCall.result

\* C21, amended: filterInput returns src itself (and evaluates nothing) when input i is
\* null. Otherwise it evaluates input i on src under mapContext(ctx), which keeps
\* ctx's ctm and cache handle, so that a non-null result is the image the cache holds
\* under the mapped context's key; a null result is returned as null, and a non-null
\* one is returned as it is unless src is texture-backed and the result is not, when
\* what is returned is the result's texture copy, or null if the upload fails.
InputResultOrTextureCopy ==
    inputCall.op = "filterInput" =>
        IF inputCall.input = NullInput
        THEN inputCall.returned = SrcImage(inputCall.src) /\ ~inputCall.called
        ELSE /\ inputCall.called
             /\ inputCall.inputCtx.ctm = inputCall.ctx.ctm
             /\ inputCall.inputCtx.cache = inputCall.ctx.cache
             /\ (inputCall.result # NullImage /\ inputCall.ctx.cache # "none") =>
                   Find(caches[inputCall.ctx.cache],
                        FilterKey(nodes[inputCall.input], inputCall.src,
                                  inputCall.inputCtx)).fImage = inputCall.result
             /\ inputCall.result = NullImage => inputCall.returned = NullImage
             /\ IF inputCall.srcTexture /\ ~inputCall.resultTexture
                THEN inputCall.returned \in {TextureCopy(inputCall.result), NullImage}
                ELSE inputCall.returned = inputCall.result

\* a raster result under a texture-backed source came back as its texture copy, from
\* a context whose clip the node's own onFilterNodeBounds had grown
InputResultOrTextureCopyWitness ==
    /\ inputCall.op = "filterInput"
    /\ inputCall.input # NullInput
    /\ inputCall.inputCtx.clipBounds # inputCall.ctx.clipBounds
    /\ inputCall.result # NullImage
    /\ inputCall.returned = TextureCopy(inputCall.result)

---------------------------------------------------------------------------
(* Properties of the crop rectangle (CropSpec) *)

\* the crop rectangle under the transform, rounded outward
DevCrop == RoundOut(MapRect(crop.ctm, crop.cropRect.fRect))
Absent(edge) == edge \notin crop.cropRect.fFlags

\* C22: CropRect::applyTo changes only the sides whose flag is set: with no flag the
\* output equals the input bounds, and whatever the flags, a side whose edge flag is
\* absent keeps the value the input bounds have for it.
ApplyToKeepsAbsentSides ==
    crop.op = "applyTo" =>
        /\ crop.cropRect.fFlags = {} => crop.cropped = crop.imageBounds
        /\ Absent("kHasLeft_CropEdge") => crop.cropped[1] = crop.imageBounds[1]
        /\ Absent("kHasTop_CropEdge") => crop.cropped[2] = crop.imageBounds[2]
        /\ Absent("kHasWidth_CropEdge") => crop.cropped[3] = crop.imageBounds[3]
        /\ Absent("kHasHeight_CropEdge") => crop.cropped[4] = crop.imageBounds[4]

\* a crop with left and top only moved those two sides off the input's, under a
\* matrix that scales, and left right and bottom where they were
ApplyToKeepsAbsentSidesWitness ==
    /\ crop.op = "applyTo"
    /\ crop.cropRect.fFlags = {"kHasLeft_CropEdge", "kHasTop_CropEdge"}
    /\ crop.ctm.sx = 2
    /\ crop.cropped[1] # crop.imageBounds[1]
    /\ crop.cropped[2] # crop.imageBounds[2]
    /\ crop.cropped[3] = crop.imageBounds[3]

\* C23: the width and height flags of CropRect::applyTo set sizes, not positions:
\* out.right = out.left + transformedCrop.width and out.bottom = out.top +
\* transformedCrop.height, from the left and top after any hasLeft / hasTop override;
\* so with all four flags the output is the transformed crop rounded outward, and
\* with hasWidth alone left and top are the input's.
WidthHeightAreSizes ==
    crop.op = "applyTo" =>
        /\ ~Absent("kHasWidth_CropEdge") =>
              crop.cropped[3] = crop.cropped[1] + Width(DevCrop)
        /\ ~Absent("kHasHeight_CropEdge") =>
              crop.cropped[4] = crop.cropped[2] + Height(DevCrop)
        /\ ~Absent("kHasLeft_CropEdge") => crop.cropped[1] = DevCrop[1]
        /\ ~Absent("kHasTop_CropEdge") => crop.cropped[2] = DevCrop[2]
        /\ crop.cropRect.fFlags = CropEdges => crop.cropped = DevCrop
        /\ crop.cropRect.fFlags = {"kHasWidth_CropEdge"} =>
              /\ crop.cropped[1] = crop.imageBounds[1]
              /\ crop.cropped[2] = crop.imageBounds[2]
              /\ crop.cropped[4] = crop.imageBounds[4]

\* hasLeft and hasWidth together, with a crop whose left differs from the input's:
\* the right side is the new left plus the crop's width, not the old left plus it
WidthHeightAreSizesWitness ==
    /\ crop.op = "applyTo"
    /\ crop.cropRect.fFlags = {"kHasLeft_CropEdge", "kHasWidth_CropEdge"}
    /\ crop.cropped[1] # crop.imageBounds[1]
    /\ crop.cropped[3] = DevCrop[3]
    /\ crop.cropped[3] # crop.imageBounds[1] + Width(DevCrop)

\* srcBounds and the cropped bounds of the last applyCropRect call
CropSrcBounds == MakeXYWH(crop.srcOffset[1], crop.srcOffset[2], crop.src.width,
                          crop.src.height)
CroppedBounds ==
    ApplyTo(crop.cropRect,
            OnFilterNodeBounds(crop.overridden, CropSrcBounds, crop.ctx.ctm, "kForward"),
            crop.ctx.ctm)
\* the two rectangles have a pixel in common
Overlap(a, b) ==
    \E x \in -20 .. 20, y \in -20 .. 20 :
        /\ a[1] <= x /\ x < a[3] /\ a[2] <= y /\ y < a[4]
        /\ b[1] <= x /\ x < b[3] /\ b[2] <= y /\ y < b[4]

\* C24: applyCropRect returns a null image whenever the cropped bounds do not
\* intersect ctx.clipBounds; when it succeeds the output bounds are a non-empty subset
\* of ctx.clipBounds, src is reused with srcOffset unchanged if srcBounds contains
\* bounds, and otherwise srcOffset becomes the origin of bounds.
CropClipsOrFails ==
    crop.op = "applyCropRect" =>
        /\ ~Overlap(CroppedBounds, crop.ctx.clipBounds) => crop.out.result = "nullptr"
        /\ crop.out.result # "nullptr" =>
              /\ ~IsEmpty(crop.out.bounds)
              /\ Contains(crop.ctx.clipBounds, crop.out.bounds)
              /\ Contains(CroppedBounds, crop.out.bounds)
              /\ IF Contains(CropSrcBounds, crop.out.bounds)
                 THEN crop.out.result = "src" /\ crop.out.srcOffset = crop.srcOffset
                 ELSE /\ crop.out.result = "padded"
                      /\ crop.out.srcOffset = <<crop.out.bounds[1], crop.out.bounds[2]>>

\* the crop reached outside the source, so a padded copy came back and srcOffset
\* moved to the origin of the bounds
CropClipsOrFailsWitness ==
    /\ crop.op = "applyCropRect"
    /\ crop.out.result = "padded"
    /\ crop.out.srcOffset # crop.srcOffset
    /\ crop.out.bounds # CroppedBounds

---------------------------------------------------------------------------
(* Properties of deserialization (UnflattenSpec) *)

\* the reads a well-formed buffer takes: the count, a bool per slot and a filter per
\* non-null slot, the rect, the flags, and the old unique id
ReadsNeeded(buffer) ==
    1 + Len(buffer.slots)
      + Cardinality({i \in 1 .. Len(buffer.slots) : buffer.slots[i] # "null"})
      + 2 + (IF buffer.oldVersion THEN 1 ELSE 0)

\* negative count, count other than expected, invalid rect, a filter that cannot be
\* read, or the buffer running out at any point
InvalidBuffer(buffer, expectedCount) ==
    \/ buffer.count < 0
    \/ expectedCount >= 0 /\ buffer.count # expectedCount
    \/ ~buffer.rectValid
    \/ \E i \in 1 .. Len(buffer.slots) : buffer.slots[i] = "bad"
    \/ buffer.avail < ReadsNeeded(buffer)

\* C25: when deserialization is invalid (negative count, count different from the
\* expected count, invalid rect, or buffer underrun at any point), unflatten reports
\* failure and the node is constructed with zero inputs and usesSrcInput false; the
\* inputs already read are released, not attached.
InvalidBufferGivesBareNode ==
    (unflat.op = "construct" /\ InvalidBuffer(unflat.buffer, unflat.expectedCount)) =>
        /\ ~unflat.made.ok
        /\ unflat.made.node.fInputs = <<>>
        /\ ~unflat.made.node.fUsesSrcInput
        /\ \A id \in DOMAIN unflat.made.refs : unflat.made.refs[id] = 0

\* the buffer ran out after a filter that uses the source had been read: the filter
\* was released and the node has no input
InvalidBufferGivesBareNodeWitness ==
    /\ unflat.op = "construct"
    /\ unflat.buffer.count = 2
    /\ unflat.expectedCount = 2
    /\ unflat.buffer.slots[1] = "usesSrc"
    /\ unflat.buffer.avail < ReadsNeeded(unflat.buffer)
    /\ DOMAIN unflat.made.refs # {}
    /\ ~unflat.made.ok

---------------------------------------------------------------------------
(* Properties of buildEdges on polygons (CullSpec) *)

BuiltEdges == cull.op = "buildEdges" /\ cull.chopCubics

\* C29 as stated: for a non-convex path built with cubic chopping enabled, buildEdges
\* never returns exactly 1, for any clip.
NonConvexNeverOne ==
    (BuiltEdges /\ ~cull.convex) => cull.count # 1

\* C29: for a non-convex path built with cubic chopping enabled, buildEdges returns
\* exactly 1 only when a clip is given and the clipper has dropped a segment lying
\* right of it; built without a clip, or with nothing dropped, the count is never 1.
NonConvexOneOnlyWhenCulled ==
    (BuiltEdges /\ ~cull.convex /\ cull.count = 1)
        => (cull.shiftedClip.given /\ cull.culled > 0)

\* a dart whose two right edges lie right of the clip and are dropped: one edge left
NonConvexOneOnlyWhenCulledWitness ==
    /\ BuiltEdges
    /\ ~cull.convex
    /\ cull.shiftedClip = ClipRect(0, 0, 2, 2)
    /\ cull.culled = 2
    /\ cull.count = 1

\* C30: the assertion at the end of buildEdges holds on every run: when
\* canCullToTheRight is false (the path is convex) and cubic chopping is enabled, the
\* returned count is 0 or at least 2, never 1, vertical fusion and clipping included.
ConvexNeverOne ==
    /\ BuiltEdges => (cull.convex <=> ~cull.canCullToTheRight)
    /\ (BuiltEdges /\ ~cull.canCullToTheRight) => (cull.count = 0 \/ cull.count >= 2)

\* a convex path that lies partly right of the clip: its right side is kept on the
\* clip's right side, and fusion has shortened the list
ConvexNeverOneWitness ==
    /\ BuiltEdges
    /\ ~cull.canCullToTheRight
    /\ cull.convex
    /\ cull.shiftedClip = ClipRect(0, 0, 2, 2)
    /\ \E i \in 1 .. Len(cull.path.pts) : cull.path.pts[i][1] > 2
    /\ cull.count = 2

---------------------------------------------------------------------------
(* Properties of the two build routes (TwinSpec) *)

\* C31 as stated: for every path made only of line verbs and every clip (or none),
\* buildPoly returns the same count and the same edge sequence, in the same order, as
\* build would for that input.
PolySameAsGeneral ==
    cull.op = "both" => cull.poly = cull.general

---------------------------------------------------------------------------
(* Properties of the builder's storage during buildEdges (CullSpec) *)

\* the builder as piece k found it
Before(k) == IF k = 1 THEN FreshBuilder ELSE cull.trace[k - 1].after

\* C32: when an edge's setLine / setQuadratic / setCubic rejects its input, the add
\* leaves the edge list exactly as it was (same length, same edges, previous edge not
\* mutated) and the build goes on with the next segment; in the polyline path the
\* rejected slot is neither listed nor consumed.
RejectedLeavesList ==
    BuiltEdges =>
        /\ Len(cull.trace) = cull.pieces
        /\ \A k \in 1 .. Len(cull.trace) :
              ~cull.trace[k].ok =>
                  /\ cull.trace[k].after.list = Before(k).list
                  /\ cull.trace[k].after.ptrs = Before(k).ptrs
                  /\ cull.trace[k].after.edgePtr = Before(k).edgePtr
                  /\ cull.poly => cull.trace[k].after.edge = Before(k).edge

\* a polyline run with a clip in which a line is rejected while the list holds an edge,
\* and the next line is accepted and listed
RejectedLeavesListWitness ==
    /\ BuiltEdges
    /\ cull.poly
    /\ cull.shiftedClip.given
    /\ \E k \in 1 .. Len(cull.trace) - 1 :
          /\ ~cull.trace[k].ok
          /\ Before(k).list # <<>>
          /\ cull.trace[k + 1].ok
          /\ cull.trace[k + 1].after.combine = "kNo_Combine"

\* C34: throughout buildPoly the list cursor stays within its array: it never drops
\* below the start of the pointer array (a TotalCombine only happens when the list is
\* non-empty), the number of listed edges and of consumed edge slots never exceeds
\* maxEdgeCount (pointCount, times kMaxClippedLineSegments when clipped), no two list
\* entries refer to the same slot, and the returned count is >= 0.
CursorStaysInArray ==
    (BuiltEdges /\ cull.poly) =>
        /\ cull.count >= 0
        /\ cull.count = IF cull.trace = <<>> THEN 0 ELSE Last(cull.trace).after.edgePtr
        /\ \A k \in 1 .. Len(cull.trace) :
              LET before == Before(k)
                  after == cull.trace[k].after
              IN  /\ after.combine = "kTotal_Combine" => before.edgePtr > 0
                  /\ after.edgePtr >= 0
                  /\ after.edgePtr <= cull.maxEdgeCount
                  /\ before.edge < cull.maxEdgeCount
                  /\ after.edge <= cull.maxEdgeCount
                  /\ Len(after.ptrs) = after.edgePtr
                  /\ \A i, j \in 1 .. Len(after.ptrs) :
                        i # j => after.ptrs[i] # after.ptrs[j]

\* a clipped polyline run in which a TotalCombine stepped the cursor back and a later
\* line was listed behind it, in a slot other than the one given up
CursorStaysInArrayWitness ==
    /\ BuiltEdges
    /\ cull.poly
    /\ cull.shiftedClip.given
    /\ \E k \in 1 .. Len(cull.trace) :
          /\ cull.trace[k].after.combine = "kTotal_Combine"
          /\ \E n \in k + 1 .. Len(cull.trace) :
                /\ cull.trace[n].after.combine = "kNo_Combine"
                /\ cull.trace[n].after.edgePtr < cull.trace[n].after.edge

---------------------------------------------------------------------------
(* Properties of the analytic builder (AnalyticSpec) *)

============================================================================
